---- MODULE Spec2Model ----
(***************************************************************************)
(* Transcript extraction and entity resolution pipeline of the intake     *)
(* service (intake/services/transcript_parser.py, intake/views.py,        *)
(* intake/models.py).                                                     *)
(*                                                                         *)
(* Python values are represented as follows.                              *)
(*   str        a sequence of one-character strings                       *)
(*   None       the one-element sequence None (never a str of the model)  *)
(*   date       <<year, month, day>>; a missing date is NoDate            *)
(*   dict       a record; dict.get is Get                                 *)
(*   list       a sequence                                                *)
(***************************************************************************)
EXTENDS Integers, Sequences, FiniteSets, TLC

(***************************************************************************)
(* Strings                                                                 *)
(***************************************************************************)
None == <<"None">>

NoDate == <<>>

NoAmount == <<>>

EmptyStr == <<>>

UpperChars == <<"A","B","C","D","E","F","G","H","I","J","K","L","M",
                "N","O","P","Q","R","S","T","U","V","W","X","Y","Z">>

LowerChars == <<"a","b","c","d","e","f","g","h","i","j","k","l","m",
                "n","o","p","q","r","s","t","u","v","w","x","y","z">>

DigitChars == <<"0","1","2","3","4","5","6","7","8","9">>

IsUpper(c) == \E i \in DOMAIN UpperChars : UpperChars[i] = c

IsDigit(c) == \E i \in DOMAIN DigitChars : DigitChars[i] = c

DigitVal(c) == (CHOOSE i \in DOMAIN DigitChars : DigitChars[i] = c) - 1

IsSpace(c) == c = " "

LowerChar(c) ==
    IF IsUpper(c)
    THEN LowerChars[CHOOSE i \in DOMAIN UpperChars : UpperChars[i] = c]
    ELSE c

\* str.lower()
Lower(s) == [i \in 1..Len(s) |-> LowerChar(s[i])]

\* str.strip()
Strip(s) ==
    LET keep == {i \in 1..Len(s) : ~IsSpace(s[i])}
        lo == CHOOSE i \in keep : \A j \in keep : i <= j
        hi == CHOOSE i \in keep : \A j \in keep : i >= j
    IN IF keep = {} THEN EmptyStr ELSE SubSeq(s, lo, hi)

\* sub in s
Contains(s, sub) ==
    \E i \in 0..(Len(s) - Len(sub)) : SubSeq(s, i + 1, i + Len(sub)) = sub

\* any(kw in s for kw in kws)
ContainsAny(s, kws) == \E kw \in kws : Contains(s, kw)

\* s[:n]
Prefix(s, n) == SubSeq(s, 1, IF Len(s) < n THEN Len(s) ELSE n)

\* str(v): the text of a value; str(None) is the four characters "None"
PyStr(v) == IF v = None THEN <<"N","o","n","e">> ELSE v

\* truthiness of an optional str
Truthy(v) == v # None /\ v # EmptyStr

\* a or b
Or(a, b) == IF Truthy(a) THEN a ELSE b

\* dict.get(key, default) on a record
Get(f, key, default) == IF key \in DOMAIN f THEN f[key] ELSE default

\* parts = s.split(" ", 1); first = parts[0] if len(parts) == 2 else ""
SplitFirst(s) ==
    LET sp == {i \in 1..Len(s) : s[i] = " "}
        p == CHOOSE i \in sp : \A j \in sp : i <= j
    IN IF sp = {} THEN EmptyStr ELSE SubSeq(s, 1, p - 1)

\* parts = s.split(" ", 1); last = parts[1] if len(parts) == 2 else parts[0]
SplitLast(s) ==
    LET sp == {i \in 1..Len(s) : s[i] = " "}
        p == CHOOSE i \in sp : \A j \in sp : i <= j
    IN IF sp = {} THEN s ELSE SubSeq(s, p + 1, Len(s))

(***************************************************************************)
(* date.fromisoformat on the YYYY-MM-DD form                               *)
(***************************************************************************)
IsLeap(y) == (y % 4 = 0 /\ y % 100 # 0) \/ y % 400 = 0

DaysInMonth(y, m) ==
    IF m = 2 THEN (IF IsLeap(y) THEN 29 ELSE 28)
    ELSE IF m \in {4, 6, 9, 11} THEN 30 ELSE 31

FromIsoFormat(s) ==
    LET wellFormed ==
            /\ Len(s) = 10
            /\ s[5] = "-" /\ s[8] = "-"
            /\ \A i \in {1, 2, 3, 4, 6, 7, 9, 10} : IsDigit(s[i])
        y == DigitVal(s[1]) * 1000 + DigitVal(s[2]) * 100 + DigitVal(s[3]) * 10 + DigitVal(s[4])
        m == DigitVal(s[6]) * 10 + DigitVal(s[7])
        d == DigitVal(s[9]) * 10 + DigitVal(s[10])
    IN IF wellFormed /\ y >= 1 /\ m \in 1..12 /\ d >= 1 /\ d <= DaysInMonth(y, m)
       THEN <<y, m, d>>
       ELSE NoDate

(***************************************************************************)
(* Class constants of TranscriptParserService                              *)
(***************************************************************************)
_INCIDENT_TYPE_MAP ==
    { <<<<"a","u","t","o","_","a","c","c","i","d","e","n","t">>, "auto">>,
      <<<<"a","u","t","o"," ","a","c","c","i","d","e","n","t">>, "auto">>,
      <<<<"s","l","i","p","_","f","a","l","l">>, "slip_fall">>,
      <<<<"s","l","i","p"," ","a","n","d"," ","f","a","l","l">>, "slip_fall">>,
      <<<<"m","e","d","i","c","a","l","_","m","a","l","p","r","a","c","t","i","c","e">>, "medical_malpractice">>,
      <<<<"m","e","d","i","c","a","l"," ","m","a","l","p","r","a","c","t","i","c","e">>, "medical_malpractice">>,
      <<<<"w","o","r","k","e","r","s","_","c","o","m","p">>, "workplace">>,
      <<<<"w","o","r","k","e","r","s"," ","c","o","m","p","e","n","s","a","t","i","o","n">>, "workplace">>,
      <<<<"w","o","r","k","p","l","a","c","e">>, "workplace">>,
      <<<<"p","r","o","d","u","c","t","_","l","i","a","b","i","l","i","t","y">>, "product_liability">>,
      <<<<"p","r","o","d","u","c","t"," ","l","i","a","b","i","l","i","t","y">>, "product_liability">>,
      <<<<"w","r","o","n","g","f","u","l","_","d","e","a","t","h">>, "other">>,
      <<<<"w","r","o","n","g","f","u","l"," ","d","e","a","t","h">>, "other">>,
      <<<<"o","t","h","e","r">>, "other">> }

_FACILITY_KEYWORDS ==
    { <<"h","o","s","p","i","t","a","l">>,
      <<"c","l","i","n","i","c">>,
      <<"c","e","n","t","e","r">>,
      <<"c","e","n","t","r","e">>,
      <<"m","e","d","i","c","a","l">>,
      <<"h","e","a","l","t","h">>,
      <<"u","r","g","e","n","t"," ","c","a","r","e">>,
      <<"o","r","t","h","o","p","e","d","i","c">>,
      <<"c","h","i","r","o","p","r","a","c","t","i","c">>,
      <<"c","h","i","r","o","p","r","a","c","t","o","r">>,
      <<"r","e","h","a","b">>,
      <<"r","e","h","a","b","i","l","i","t","a","t","i","o","n">>,
      <<"i","m","a","g","i","n","g">>,
      <<"r","a","d","i","o","l","o","g","y">>,
      <<"p","h","a","r","m","a","c","y">>,
      <<"e","r"," ">>,
      <<"e","m","e","r","g","e","n","c","y"," ","r","o","o","m">> }

_COMPANY_KEYWORDS ==
    { <<"i","n","c">>,
      <<"l","l","c">>,
      <<"c","o","r","p">>,
      <<"c","o",".">>,
      <<"c","o","m","p","a","n","y">>,
      <<"l","t","d">>,
      <<"g","r","o","u","p">>,
      <<"t","r","u","c","k","i","n","g">>,
      <<"t","r","a","n","s","p","o","r","t">>,
      <<"l","o","g","i","s","t","i","c","s">>,
      <<"c","o","n","s","t","r","u","c","t","i","o","n">>,
      <<"p","r","o","p","e","r","t","i","e","s">>,
      <<"m","a","n","a","g","e","m","e","n","t">> }

\* the keyword tuples of _extract_damages
WageKeywords ==
    { <<"w","a","g","e">>,
      <<"l","o","s","t"," ","i","n","c","o","m","e">>,
      <<"l","o","s","t"," ","e","a","r","n","i","n","g","s">> }

MedicalKeywords ==
    { <<"m","e","d","i","c","a","l">>,
      <<"h","o","s","p","i","t","a","l">>,
      <<"d","o","c","t","o","r">>,
      <<"b","i","l","l">>,
      <<"t","r","e","a","t","m","e","n","t">> }

PropertyKeywords ==
    { <<"p","r","o","p","e","r","t","y">>,
      <<"v","e","h","i","c","l","e">>,
      <<"c","a","r">>,
      <<"t","r","u","c","k">>,
      <<"r","e","p","a","i","r">> }

(***************************************************************************)
(* The external extraction call and its response                          *)
(*                                                                         *)
(* A response of chat.completions.create is either an OpenAIError or a    *)
(* message content.  A content is no text at all, a text json.loads       *)
(* rejects, a JSON array, or a JSON object; the object has no "findings"  *)
(* key, a "findings" value that is no list, or a list of findings.        *)
(***************************************************************************)
NoCache == [none |-> TRUE]

NoError == [cls |-> "", why |-> ""]

RuntimeError(why) == [cls |-> "RuntimeError", why |-> why]

\* json.loads(raw_content)
JsonLoads(content) ==
    CASE content.json = "none" -> [err |-> [cls |-> "TypeError", why |-> "content"]]
      [] content.json = "invalid" -> [err |-> RuntimeError("non-JSON")]
      [] OTHER -> [err |-> NoError, parsed |-> content]

\* [f for f in findings if isinstance(f, dict) and f.get("value") is not None]
ValidFindingsNoFilter(findings) == findings

ValidFindings(findings) ==
    SelectSeq(findings, LAMBDA f : Get(f, "value", None) # None)

\* the part of _call_llm after the external call returned a message
PostProcess(turns, content) ==
    LET loaded == JsonLoads(content)
        parsed == loaded.parsed
        \* parsed.get("findings", [])
        findings == IF parsed.json = "object"
                    THEN Get(parsed.obj, "findings", [is_list |-> TRUE, items |-> <<>>])
                    ELSE [is_list |-> FALSE]
        valid == ValidFindings(findings.items)
    IN  IF loaded.err # NoError
        THEN [err |-> loaded.err, called |-> TRUE]
        ELSE IF parsed.json # "object"
        THEN [err |-> [cls |-> "AttributeError", why |-> "get"], called |-> TRUE]
        ELSE IF ~findings.is_list
        THEN [err |-> RuntimeError("missing findings list"), called |-> TRUE]
        ELSE [err |-> NoError, called |-> TRUE, ret |-> valid,
              cache |-> [turns_id |-> turns.id, data |-> valid]]

\* the external call and what follows it
CallOut(turns, resp) ==
    IF resp.kind = "OpenAIError"
    THEN [err |-> RuntimeError("LLM extraction failed"), called |-> TRUE]
    ELSE PostProcess(turns, resp.content)

CallLLMMissNoShortCircuit(turns, api_key, resp) ==
    IF ~api_key
    THEN [err |-> RuntimeError("OPENAPI_KEY is not set"), called |-> FALSE]
    ELSE CallOut(turns, resp)

CallLLMMissSwallow(turns, api_key, resp) ==
    IF turns.content = <<>> \/ ~api_key \/ resp.kind = "OpenAIError"
    THEN [err |-> NoError, called |-> turns.content # <<>> /\ api_key, ret |-> <<>>,
          cache |-> [turns_id |-> turns.id, data |-> <<>>]]
    ELSE PostProcess(turns, resp.content)

\* the part of _call_llm past the cache check: short-circuit, credential, call
CallLLMMiss(turns, api_key, resp) ==
    IF turns.content = <<>>
    THEN [err |-> NoError, called |-> FALSE, ret |-> <<>>,
          cache |-> [turns_id |-> turns.id, data |-> <<>>]]
    ELSE IF ~api_key
    THEN [err |-> RuntimeError("OPENAPI_KEY is not set"), called |-> FALSE]
    ELSE CallOut(turns, resp)

\* cache is not None and cache.get("turns_id") == id(turns)
CacheHit(cache, turns) == cache # NoCache /\ cache.turns_id = turns.id

CallLLMNoCache(cache, turns, api_key, resp) == CallLLMMiss(turns, api_key, resp)

\* TranscriptParserService._call_llm: what one call does to the instance's
\* _findings_cache, whether it calls out, and what it returns or raises
_call_llm(cache, turns, api_key, resp) ==
    IF CacheHit(cache, turns)
    THEN [err |-> NoError, called |-> FALSE, ret |-> cache.data, cache |-> cache]
    ELSE CallLLMMiss(turns, api_key, resp)

(***************************************************************************)
(* Extraction helpers: each is _call_llm followed by a pure classification*)
(* of the findings it returned.                                            *)
(***************************************************************************)
\* meta = {f["field"]: f for f in findings if finding_type == "metadata"};
\* meta.get(field, {}).get("value")
MetaValue(findings, field) ==
    LET idx == {i \in 1..Len(findings) :
                    /\ Get(findings[i], "finding_type", "") = "metadata"
                    /\ findings[i].field = field}
        last == CHOOSE i \in idx : \A j \in idx : i >= j
    IN IF idx = {} THEN None ELSE Get(findings[last], "value", None)

NoType == "None"

MapIncidentType(key) ==
    IF \E e \in _INCIDENT_TYPE_MAP : e[1] = key
    THEN (CHOOSE e \in _INCIDENT_TYPE_MAP : e[1] = key)[2]
    ELSE "other"

RECURSIVE SplitComma(_)
\* [i.strip() for i in s.split(",") if i.strip()]
SplitComma(s) ==
    LET cm == {i \in 1..Len(s) : s[i] = ","}
        p == CHOOSE i \in cm : \A j \in cm : i <= j
        head == Strip(IF cm = {} THEN s ELSE SubSeq(s, 1, p - 1))
        rest == IF cm = {} THEN <<>> ELSE SplitComma(SubSeq(s, p + 1, Len(s)))
    IN (IF head = EmptyStr THEN <<>> ELSE <<head>>) \o rest

\* _extract_incident_info, past its _call_llm
IncidentInfo(findings) ==
    LET raw_date == MetaValue(findings, "accident_date")
        raw_case_type == MetaValue(findings, "case_type")
        raw_injuries == MetaValue(findings, "injuries")
    IN [incident_date |-> IF Truthy(raw_date) THEN FromIsoFormat(PyStr(raw_date)) ELSE NoDate,
        incident_type |-> IF Truthy(raw_case_type)
                          THEN MapIncidentType(Strip(Lower(PyStr(raw_case_type))))
                          ELSE NoType,
        incident_location |-> MetaValue(findings, "incident_location"),
        injuries |-> IF Truthy(raw_injuries) THEN SplitComma(PyStr(raw_injuries)) ELSE <<>>]

\* the findings of one family whose stripped value is not empty
Individual(findings, field) ==
    SelectSeq(findings, LAMBDA f :
        /\ Get(f, "finding_type", "") = "individual"
        /\ Get(f, "field", "") = field
        /\ Strip(PyStr(Get(f, "value", EmptyStr))) # EmptyStr)

FindingText(f) == Strip(PyStr(Get(f, "value", EmptyStr)))

\* the citation dict of _extract_parties, _extract_medical, _extract_damages
CitedText(f) == Or(Get(f, "quote", None), FindingText(f))

\* one entry of _extract_parties
Party(f) ==
    LET value == FindingText(f)
        is_company == ContainsAny(Lower(value), _COMPANY_KEYWORDS)
    IN [first_name |-> IF is_company THEN EmptyStr ELSE SplitFirst(value),
        last_name |-> IF is_company THEN EmptyStr ELSE SplitLast(value),
        company_name |-> IF is_company THEN value ELSE EmptyStr,
        role |-> "at-fault party",
        _cited_text |-> CitedText(f),
        _turn_index |-> Get(f, "transcript_index", None),
        _confidence |-> Get(f, "confidence", <<"h","i","g","h">>)]

\* _extract_parties, past its _call_llm
Parties(findings) ==
    LET sel == Individual(findings, "other_party")
    IN [i \in 1..Len(sel) |-> Party(sel[i])]

\* re.sub(r"^(Dr\.?\s+|Doctor\s+)", "", value, flags=re.IGNORECASE).strip()
StripHonorific(value) ==
    LET low == Lower(value)
        n == Len(value)
        \* the length of the honorific word, 0 when the value starts with none
        word == IF n >= 7 /\ SubSeq(low, 1, 6) = <<"d","o","c","t","o","r">> /\ IsSpace(low[7]) THEN 6
                ELSE IF n >= 4 /\ SubSeq(low, 1, 3) = <<"d","r",".">> /\ IsSpace(low[4]) THEN 3
                ELSE IF n >= 3 /\ SubSeq(low, 1, 2) = <<"d","r">> /\ IsSpace(low[3]) THEN 2
                ELSE 0
    IN IF word = 0 THEN Strip(value) ELSE Strip(SubSeq(value, word + 1, n))

\* one entry of _extract_medical
Medical(f) ==
    LET value == FindingText(f)
        is_facility == ContainsAny(Lower(value), _FACILITY_KEYWORDS)
        name == StripHonorific(value)
    IN [first_name |-> IF is_facility THEN EmptyStr ELSE SplitFirst(name),
        last_name |-> IF is_facility THEN EmptyStr ELSE SplitLast(name),
        facility_name |-> IF is_facility THEN value ELSE EmptyStr,
        specialty |-> EmptyStr,
        treatment_type |-> EmptyStr,
        diagnosis |-> EmptyStr,
        _cited_text |-> CitedText(f),
        _turn_index |-> Get(f, "transcript_index", None),
        _confidence |-> Get(f, "confidence", <<"h","i","g","h">>)]

\* _extract_medical, past its _call_llm
Medicals(findings) ==
    LET sel == Individual(findings, "medical_provider")
    IN [i \in 1..Len(sel) |-> Medical(sel[i])]

\* one entry of _extract_insurance
Insurance(f) ==
    [company_name |-> FindingText(f),
     policy_number |-> EmptyStr,
     claim_number |-> EmptyStr,
     coverage_type |-> "liability",
     adjuster_name |-> EmptyStr]

\* _extract_insurance, past its _call_llm
Insurances(findings) ==
    LET sel == Individual(findings, "insurance_provider")
    IN [i \in 1..Len(sel) |-> Insurance(sel[i])]

RECURSIVE IntVal(_)
\* the number a digit string denotes
IntVal(digits) ==
    IF digits = <<>> THEN 0
    ELSE IntVal(SubSeq(digits, 1, Len(digits) - 1)) * 10 + DigitVal(digits[Len(digits)])

\* re.search(r"\$?([\d,]+(?:\.\d+)?)", value), then
\* float(amount_match.group(1).replace(",", "")): the whole part and the
\* fraction digits of the amount, NoAmount without a match or on ValueError
EstimatedAmount(value) ==
    LET n == Len(value)
        IsNum(i) == IsDigit(value[i]) \/ value[i] = ","
        starts == {i \in 1..n : IsNum(i)}
        j == CHOOSE i \in starts : \A k \in starts : i <= k
        \* the greedy run [\d,]+ from j
        k == CHOOSE e \in j..n :
                /\ \A i \in j..e : IsNum(i)
                /\ (e = n \/ ~IsNum(e + 1))
        hasFrac == k + 2 <= n /\ value[k + 1] = "." /\ IsDigit(value[k + 2])
        fe == CHOOSE e \in (k + 2)..n :
                /\ \A i \in (k + 2)..e : IsDigit(value[i])
                /\ (e = n \/ ~IsDigit(value[e + 1]))
        whole == SelectSeq(SubSeq(value, j, k), LAMBDA c : c # ",")
        frac == IF hasFrac THEN SubSeq(value, k + 2, fe) ELSE <<>>
        nz == {i \in 1..Len(frac) : frac[i] # "0"}
        fracKept == IF nz = {} THEN <<>>
                    ELSE SubSeq(frac, 1, CHOOSE i \in nz : \A m \in nz : i >= m)
    IN IF starts = {} \/ whole = <<>>
       THEN NoAmount
       ELSE <<IntVal(whole), fracKept>>

\* the keyword heuristic of _extract_damages
DamageCategoryMedicalFirst(value) ==
    LET value_lower == Lower(value)
    IN IF ContainsAny(value_lower, MedicalKeywords) THEN "medical"
       ELSE IF ContainsAny(value_lower, WageKeywords) THEN "lost_wages"
       ELSE IF Contains(value_lower, <<"f","u","t","u","r","e">>)
               /\ Contains(value_lower, <<"m","e","d","i","c","a","l">>) THEN "future_medical"
       ELSE IF ContainsAny(value_lower, PropertyKeywords) THEN "property"
       ELSE "other"

DamageCategory(value) ==
    LET value_lower == Lower(value)
    IN IF ContainsAny(value_lower, WageKeywords) THEN "lost_wages"
       ELSE IF Contains(value_lower, <<"f","u","t","u","r","e">>)
               /\ Contains(value_lower, <<"m","e","d","i","c","a","l">>) THEN "future_medical"
       ELSE IF ContainsAny(value_lower, MedicalKeywords) THEN "medical"
       ELSE IF ContainsAny(value_lower, PropertyKeywords) THEN "property"
       ELSE "other"

\* one entry of _extract_damages
Damage(f) ==
    LET value == FindingText(f)
    IN [category |-> DamageCategory(value),
        description |-> value,
        estimated_amount |-> EstimatedAmount(value),
        _cited_text |-> CitedText(f),
        _turn_index |-> Get(f, "transcript_index", None),
        _confidence |-> Get(f, "confidence", <<"h","i","g","h">>)]

\* _extract_damages, past its _call_llm
Damages(findings) ==
    LET sel == Individual(findings, "financial_expense")
    IN [i \in 1..Len(sel) |-> Damage(sel[i])]

(***************************************************************************)
(* Risk flags: TranscriptParserService._flag_risks                         *)
(***************************************************************************)
\* (a - b).days of two dates, by their proleptic Gregorian ordinals
DaysBetween(a, b) ==
    LET BeforeMonth == <<0, 31, 59, 90, 120, 151, 181, 212, 243, 273, 304, 334>>
        BeforeYear(y) == (y - 1) * 365 + ((y - 1) \div 4) - ((y - 1) \div 100)
                         + ((y - 1) \div 400)
        Ordinal(d) == BeforeYear(d[1]) + BeforeMonth[d[2]]
                      + (IF d[2] > 2 /\ IsLeap(d[1]) THEN 1 ELSE 0) + d[3]
    IN  Ordinal(a) - Ordinal(b)

SolDays == 600

SolExceededFrom(days_since) == days_since >= SolDays

\* "if days_since > 600"
SolExceeded(days_since) == days_since > SolDays

UninsuredAnyType(result) == result.insurance = <<>>

\* "if result.incident_type == "auto" and not result.insurance_carriers"
Uninsured(result) == result.info.incident_type = "auto" /\ result.insurance = <<>>

RECURSIVE JoinValues(_)
\* " ".join(str(f.get("value", "")) for f in findings)
JoinValues(findings) ==
    IF findings = <<>> THEN EmptyStr
    ELSE IF Len(findings) = 1 THEN PyStr(Get(findings[1], "value", EmptyStr))
    ELSE PyStr(Get(findings[1], "value", EmptyStr)) \o <<" ">> \o JoinValues(Tail(findings))

MultipleDefendantsFromOne(result) == Len(result.parties) >= 1

\* "if len(result.other_parties) > 1"
MultipleDefendants(result) == Len(result.parties) > 1

\* the phrases of the two keyword scans
RiskKeywords ==
    [pre_existing_condition |->
         {<<"p","r","e","-","e","x","i","s","t","i","n","g">>,
             <<"p","r","i","o","r"," ","i","n","j","u","r","y">>,
             <<"p","r","e","v","i","o","u","s"," ","c","o","n","d","i","t","i","o","n">>,
             <<"p","r","i","o","r"," ","c","o","n","d","i","t","i","o","n">>},
     liability_disputed |->
         {<<"d","i","s","p","u","t","e","d">>,
             <<"d","i","s","p","u","t","e">>,
             <<"d","e","n","i","e","d"," ","l","i","a","b","i","l","i","t","y">>,
             <<"d","e","n","y"," ","l","i","a","b","i","l","i","t","y">>,
             <<"n","o","t"," ","a","t"," ","f","a","u","l","t">>}]

\* _flag_risks(result), with the service's cache and date.today()
_flag_risks(result, cached, today_) ==
    LET findings == IF cached = NoCache THEN <<>> ELSE cached.data
        all_text == Lower(JoinValues(findings))
        sol == /\ result.info.incident_date # NoDate
               /\ SolExceeded(DaysBetween(today_, result.info.incident_date))
        uninsured == Uninsured(result)
        multiple == MultipleDefendants(result)
        pre_existing == ContainsAny(all_text, RiskKeywords.pre_existing_condition)
        disputed == ContainsAny(all_text, RiskKeywords.liability_disputed)
        Flag(on, name) == IF on THEN <<name>> ELSE <<>>
    IN  Flag(sol, "statute_of_limitations_risk") \o Flag(uninsured, "uninsured_motorist")
        \o Flag(multiple, "multiple_defendants") \o Flag(pre_existing, "pre_existing_condition")
        \o Flag(disputed, "liability_disputed")

(***************************************************************************)
(* Case/Client Matcher: TranscriptParserService._find_existing_case        *)
(*                                                                         *)
(* Rows are kept in creation order, so a later index is a later           *)
(* created_at.  A match is <<client, case>>, no match is NoMatch.         *)
(***************************************************************************)
NoMatch == <<>>

NoQuery == [none |-> TRUE]

\* the arguments and locals of ingest before it has run
NoFrame ==
    [law_firm_id |-> 0, findings |-> <<>>, law_firm |-> 0, first_name |-> <<>>,
     last_name |-> <<>>, matched |-> FALSE, client |-> 0, case |-> 0]

AnchorLen == 40

\* the latest created of a non-empty set of rows: order_by("-created_at").first()
Latest(rows) == CHOOSE i \in rows : \A j \in rows : i >= j

\* field__iexact=value
IExact(stored, value) == Lower(stored) = Lower(value)

\* field__icontains=value
IContains(stored, value) == Contains(Lower(stored), Lower(value))

ClientQsAnyFirm(clients_, law_firm, first_name, last_name) ==
    {i \in DOMAIN clients_ :
        /\ IExact(clients_[i].first_name, first_name)
        /\ IExact(clients_[i].last_name, last_name)}

\* Client.objects.filter(law_firm=..., first_name__iexact=..., last_name__iexact=...)
ClientQs(clients_, law_firm, first_name, last_name) ==
    {i \in DOMAIN clients_ :
        /\ clients_[i].law_firm = law_firm
        /\ IExact(clients_[i].first_name, first_name)
        /\ IExact(clients_[i].last_name, last_name)}

\* client.case_set.all()
CaseSet(cases_, client) == {k \in DOMAIN cases_ : cases_[k].client = client}

\* case_qs.filter(incident_date=incident_date)
DateMatches(cases_, client, incident_date) ==
    {k \in CaseSet(cases_, client) : cases_[k].incident_date = incident_date}

LocationAnchorWhole(incident_location) == Strip(incident_location)

\* incident_location[:40].strip()
LocationAnchor(incident_location) == Strip(Prefix(incident_location, AnchorLen))

\* case_qs.filter(incident_type=..., incident_location__icontains=location_anchor)
TypeLocMatches(cases_, client, incident_type, incident_location) ==
    {k \in CaseSet(cases_, client) :
        /\ cases_[k].incident_type = incident_type
        /\ IContains(cases_[k].incident_location, LocationAnchor(incident_location))}

\* the two tiers of the case match, for the resolved client
CaseMatchFallbackFirst(cases_, client, q) ==
    LET byDate == DateMatches(cases_, client, q.incident_date)
        byTypeLoc == TypeLocMatches(cases_, client, q.incident_type, q.incident_location)
    IN  IF q.incident_type # NoType /\ Truthy(q.incident_location) /\ byTypeLoc # {}
        THEN <<client, Latest(byTypeLoc)>>
        ELSE IF q.incident_date # NoDate /\ byDate # {}
        THEN <<client, Latest(byDate)>>
        ELSE NoMatch

CaseMatch(cases_, client, q) ==
    LET byDate == DateMatches(cases_, client, q.incident_date)
        byTypeLoc == TypeLocMatches(cases_, client, q.incident_type, q.incident_location)
    IN  IF q.incident_date # NoDate /\ byDate # {}
        THEN <<client, Latest(byDate)>>
        ELSE IF q.incident_type # NoType /\ Truthy(q.incident_location) /\ byTypeLoc # {}
        THEN <<client, Latest(byTypeLoc)>>
        ELSE NoMatch

\* _find_existing_case(law_firm, first_name, last_name, incident_type,
\* incident_date, incident_location) over the stored clients and cases
_find_existing_case(clients_, cases_, q) ==
    LET client_qs == ClientQs(clients_, q.law_firm, q.first_name, q.last_name)
        client == Latest(client_qs)
    IN  IF client_qs = {} THEN NoMatch
        ELSE IF CaseSet(cases_, client) = {} THEN NoMatch
        ELSE CaseMatch(cases_, client, q)

Query(law_firm, first_name, last_name, incident_type, incident_date, incident_location) ==
    [law_firm |-> law_firm, first_name |-> first_name, last_name |-> last_name,
     incident_type |-> incident_type, incident_date |-> incident_date,
     incident_location |-> incident_location]

(***************************************************************************)
(* Bounds and input sets                                                   *)
(***************************************************************************)
MaxTurns == 2

MaxAddr == 2

MaxFindings == 2

\* id(turns): the addresses a list object can live at
Addr == 1..MaxAddr

TheTurn == [speaker |-> "Caller", text |-> "I was rear-ended on Main St"]

\* raw_transcript of a communication: a list of 0..MaxTurns turns
Transcripts == UNION {[1..k -> {TheTurn}] : k \in 0..MaxTurns}

High == <<"h","i","g","h">>

F(type, fld, value, idx) ==
    [finding_type |-> type, field |-> fld, value |-> value,
     transcript_index |-> idx, quote |-> None, confidence |-> High]

\* a finding the response gives no "value" key at all
FNoValue(type, fld, idx) ==
    [finding_type |-> type, field |-> fld,
     transcript_index |-> idx, quote |-> None, confidence |-> High]

FindingPool ==
    { F("metadata", "accident_date", <<"2","0","2","4","-","0","3","-","0","3">>, 0),
      F("individual", "other_party", <<"A","c","m","e"," ","T","r","u","c","k","i","n","g"," ","L","L","C">>, 1),
      F("individual", "other_party", None, 1),
      F("individual", "other_party", <<" ">>, 1),
      F("individual", "medical_provider", <<"D","r","."," ","J","o","h","n"," ","L","e","e">>, 1),
      FNoValue("individual", "medical_provider", 1),
      F("individual", "insurance_provider", <<"S","t","a","t","e"," ","F","a","r","m">>, 1),
      F("individual", "insurance_provider", None, 1),
      F("individual", "financial_expense", <<"m","e","d","i","c","a","l"," ","b","i","l","l","s"," ","$","1",",","2","0","0">>, 1),
      F("individual", "financial_expense", None, 1) }

SeqsUpTo(S, n) == UNION {[1..k -> S] : k \in 0..n}

\* what chat.completions.create can answer with
Responses(lists) ==
    {[kind |-> "OpenAIError"]}
    \cup {[kind |-> "message", content |-> c] :
            c \in {[json |-> "none"], [json |-> "invalid"], [json |-> "array"],
                   [json |-> "object", obj |-> [other |-> TRUE]],
                   [json |-> "object", obj |-> [findings |-> [is_list |-> FALSE]]]}}
    \cup {[kind |-> "message",
           content |-> [json |-> "object",
                        obj |-> [findings |-> [is_list |-> TRUE, items |-> fs]]]] :
            fs \in lists}

\* the findings lists an answer to a parse can carry
ParseLists == SeqsUpTo(FindingPool, MaxFindings)

(***************************************************************************)
(* State                                                                   *)
(***************************************************************************)
VARIABLES
    today,      \* date.today()
    api_key,    \* settings.OPENAPI_KEY is set
    cache,      \* the service instance's _findings_cache, NoCache before its first write
    live,       \* the addresses of the turns lists that are alive
    turns,      \* the turns list of the running invocation: [id, content]
    op,         \* the running invocation: "parse", "ingest" or "none"
    pc,         \* its position
    res,        \* the helpers' results so far
    ret,        \* what the latest _call_llm returned
    err,        \* the exception the invocation ended with, NoError if none
    llm_log,    \* history: the answers to this invocation's external calls
    filled,     \* history: the cache was written for the turns of this invocation
    firms,      \* LawFirm rows, in creation order
    clients,    \* Client rows, in creation order
    cases,      \* Case rows, in creation order
    comms,      \* ClientCommunication rows, in creation order
    parties,    \* OtherParty rows
    facilities, \* MedicalFacility rows
    providers,  \* MedicalProvider rows
    treatments, \* Treatment rows
    damages,    \* Damage rows
    citations,  \* ClientCommunicationCitation rows
    refs,       \* CitationReference rows
    cur,        \* the communication of the running invocation, 0 if none yet
    frame,      \* the arguments and local variables of the running ingest
    query,      \* the arguments of the latest _find_existing_case call
    found,      \* what that call returned
    hist        \* history: the last two completed ingests, oldest first

pipeVars == <<api_key, cache, live, turns, op, pc, res, ret, err, llm_log, filled, cur>>

matchVars == <<query, found>>

ingestVars == <<frame, hist>>

recVars == <<parties, facilities, providers, treatments, damages, citations, refs>>

dbVars == <<firms, clients, cases, comms, recVars>>

vars == <<today, pipeVars, dbVars, matchVars, ingestVars>>

NoTurns == [id |-> 0, content |-> <<>>]

NoRes == [info |-> IncidentInfo(<<>>), parties |-> <<>>, medical |-> <<>>,
          insurance |-> <<>>, damages |-> <<>>, raw_flags |-> <<>>]

Stopped == pc \in {"idle", "returned", "raised"}

\* the helper called at each position of parse, and the position after it
ParseOrder == <<"info", "parties", "medical", "insurance", "damages", "finish">>

NextPc(order, at) ==
    order[(CHOOSE i \in DOMAIN order : order[i] = at) + 1]

\* the result of the helper at a position: what it adds to the results
HelperResult(at, findings) ==
    CASE at = "info" -> [res EXCEPT !.info = IncidentInfo(findings)]
      [] at = "parties" -> [res EXCEPT !.parties = Parties(findings)]
      [] at = "medical" -> [res EXCEPT !.medical = Medicals(findings)]
      [] at = "insurance" -> [res EXCEPT !.insurance = Insurances(findings)]
      [] at = "damages" -> [res EXCEPT !.damages = Damages(findings)]

\* one call of _call_llm by the running invocation, with outcome o: the effect
\* on the instance and on the invocation
CallLLM(resp, o) ==
    /\ llm_log' = IF o.called THEN Append(llm_log, resp) ELSE llm_log
    /\ IF o.err = NoError
       THEN /\ cache' = o.cache
            /\ ret' = o.ret
            /\ filled' = (filled \/ ~CacheHit(cache, turns))
            /\ err' = err
       ELSE /\ err' = o.err
            /\ UNCHANGED <<cache, ret, filled>>

\* the answers the service can get at this point: the external service is
\* asked, and answers, only if _call_llm calls out
Answers(lists) ==
    IF _call_llm(cache, turns, api_key, [kind |-> "OpenAIError"]).called
    THEN Responses(lists)
    ELSE {[kind |-> "OpenAIError"]}

\* the garbage collector frees a turns list no invocation holds any more
Release(a) ==
    /\ a \in live
    /\ Stopped
    /\ live' = live \ {a}
    /\ UNCHANGED <<today, api_key, cache, turns, op, pc, res, ret, err, llm_log, filled, cur, dbVars,
                   matchVars, ingestVars>>

(***************************************************************************)
(* Parse-into-existing-case: ClientCommunicationViewSet.parse and          *)
(* TranscriptParserService.parse                                           *)
(***************************************************************************)
\* the view loads the communication, builds a service (fresh) or is handed
\* one that has served before, and parse binds turns
StartParse(fresh) ==
    /\ Stopped
    /\ \E c \in DOMAIN comms, a \in Addr \ live :
        /\ cur' = c
        /\ turns' = [id |-> a, content |-> comms[c].raw_transcript]
        /\ live' = live \cup {a}
    /\ cache' = IF fresh THEN NoCache ELSE cache
    /\ op' = "parse"
    /\ pc' = "info"
    /\ res' = NoRes
    /\ ret' = <<>>
    /\ err' = NoError
    /\ llm_log' = <<>>
    /\ filled' = FALSE
    /\ UNCHANGED <<today, api_key, dbVars, matchVars, ingestVars>>

\* one of the five extraction helpers of parse
ParseHelper(lists) ==
    /\ op = "parse"
    /\ pc \in {"info", "parties", "medical", "insurance", "damages"}
    /\ \E resp \in Answers(lists) :
        LET o == _call_llm(cache, turns, api_key, resp)
        IN  /\ CallLLM(resp, o)
            /\ IF o.err = NoError
               THEN /\ res' = HelperResult(pc, o.ret)
                    /\ pc' = NextPc(ParseOrder, pc)
               ELSE /\ res' = res
                    /\ pc' = "raised"
    /\ UNCHANGED <<today, api_key, live, turns, op, cur, dbVars, matchVars, ingestVars>>

\* the result is built, its risks flagged and the communication marked done
ParseFinish ==
    /\ op = "parse"
    /\ pc = "finish"
    /\ res' = [res EXCEPT !.raw_flags = _flag_risks(res, cache, today)]
    /\ comms' = [comms EXCEPT ![cur].parse_status = "done"]
    /\ pc' = "returned"
    /\ UNCHANGED <<today, api_key, cache, live, turns, op, ret, err, llm_log, filled, cur,
                   firms, clients, cases, recVars, matchVars, ingestVars>>

(***************************************************************************)
(* Stored rows                                                             *)
(***************************************************************************)
LawFirmRow(name) == [name |-> name]

ClientRow(firm, first, last) == [law_firm |-> firm, first_name |-> first, last_name |-> last]

\* updated_at (auto_now) is kept as the number of saves since the row was made
CaseRow(client, type, date, location) ==
    [client |-> client, incident_type |-> type, incident_date |-> date,
     incident_location |-> location, updated_at |-> 0]

CommRow(client, case, transcript, status) ==
    [client |-> client, case |-> case, raw_transcript |-> transcript, parse_status |-> status]

OtherPartyRow(case, first, last, company, role) ==
    [case |-> case, first_name |-> first, last_name |-> last, company_name |-> company,
     role |-> role]

MedicalFacilityRow(name) == [name |-> name]

MedicalProviderRow(first, last, facility, specialty) ==
    [first_name |-> first, last_name |-> last, facility |-> facility, specialty |-> specialty]

TreatmentRow(case, provider, type, diagnosis) ==
    [case |-> case, provider |-> provider, treatment_type |-> type, diagnosis |-> diagnosis]

DamageRow(case, category, description, amount) ==
    [case |-> case, category |-> category, description |-> description,
     estimated_amount |-> amount]

CitationRow(communication, key, text, turn_index, score) ==
    [communication |-> communication, citation_key |-> key, cited_text |-> text,
     turn_index |-> turn_index, confidence_score |-> score]

ReferenceRow(citation, content_type, object_id, label) ==
    [citation |-> citation, content_type |-> content_type, object_id |-> object_id,
     relationship_label |-> label]

\* CitationReference.ALLOWED_CONTENT_TYPES
ALLOWED_CONTENT_TYPES == {"client", "otherparty", "medicalprovider", "insuranceprovider"}

\* a blank Case.incident_type
BlankType == ""

(***************************************************************************)
(* TranscriptParserService.persist and _write_metadata_citations, as       *)
(* functions of the stored rows: db is the record of the tables they read  *)
(* and write, db.err the exception that stopped them                       *)
(***************************************************************************)
NoObj == [none |-> TRUE]

Obj(model, pk) == [model |-> model, pk |-> pk]

\* _CONF.get(str(confidence).lower(), 1.0), in tenths
_CONF(confidence) ==
    LET key == Lower(PyStr(confidence))
    IN  IF key = <<"m","e","d","i","u","m">> THEN 7
        ELSE IF key = <<"l","o","w">> THEN 4
        ELSE 10

\* ClientCommunicationCitation.turn_index is a PositiveIntegerField: the store
\* rejects a row with a negative one (the findings drawn all carry an integer
\* transcript_index)
IntegrityError(db) ==
    [db EXCEPT !.err = [cls |-> "IntegrityError", why |-> "ClientCommunicationCitation"]]

WriteCitationAlwaysRefers(db, cit, obj, label) ==
    LET db1 == [db EXCEPT !.citations = Append(@, cit)]
    IN  IF cit.turn_index < 0 THEN IntegrityError(db)
        ELSE [db1 EXCEPT !.refs = Append(@,
                  IF obj = NoObj THEN ReferenceRow(Len(db1.citations), "damage", 0, label)
                  ELSE ReferenceRow(Len(db1.citations), obj.model, obj.pk, label))]

\* the citation is written, and a reference to obj when its kind is allowed;
\* nothing catches an exception of the two creates
WriteCitation(db, cit, obj, label) ==
    LET db1 == [db EXCEPT !.citations = Append(@, cit)]
    IN  IF cit.turn_index < 0 THEN IntegrityError(db)
        ELSE IF obj # NoObj /\ obj.model \in ALLOWED_CONTENT_TYPES
        THEN [db1 EXCEPT !.refs = Append(@, ReferenceRow(Len(db1.citations), obj.model,
                                                         obj.pk, label))]
        ELSE db1

\* _cite of persist; communication is 0 when persist is given none
_cite(db, communication, citation_key, data, obj, label) ==
    IF communication = 0 THEN db
    ELSE WriteCitation(db,
                       CitationRow(communication, citation_key,
                                   Or(Get(data, "_cited_text", None), EmptyStr),
                                   Get(data, "_turn_index", None),
                                   _CONF(Get(data, "_confidence", High))),
                       obj, label)

\* objects.get_or_create finds more than one row
MultipleObjectsReturned(db) ==
    [db EXCEPT !.err = [cls |-> "MultipleObjectsReturned", why |-> "get_or_create"]]

UpdateCaseOverwrites(db, case, info) ==
    LET row == db.cases[case]
        date == IF info.incident_date # NoDate THEN info.incident_date ELSE row.incident_date
        type == IF info.incident_type # NoType THEN info.incident_type ELSE row.incident_type
        changed_fields == {f \in {"incident_date", "incident_type"} :
                              [incident_date |-> date, incident_type |-> type][f] # row[f]}
    IN  IF changed_fields = {} THEN db
        ELSE [db EXCEPT !.cases[case] = [row EXCEPT !.incident_date = date,
                                                    !.incident_type = type,
                                                    !.updated_at = @ + 1]]

\* "Update case fields if blank", saved with updated_at when a field changed
UpdateCase(db, case, info) ==
    LET row == db.cases[case]
        fillsDate == info.incident_date # NoDate /\ row.incident_date = NoDate
        fillsType == info.incident_type # NoType /\ row.incident_type = BlankType
        date == IF fillsDate THEN info.incident_date ELSE row.incident_date
        type == IF fillsType THEN info.incident_type ELSE row.incident_type
    IN  IF ~fillsDate /\ ~fillsType THEN db
        ELSE [db EXCEPT !.cases[case] = [row EXCEPT !.incident_date = date,
                                                    !.incident_type = type,
                                                    !.updated_at = @ + 1]]

PersistPartyAlwaysCreates(db, case, party_data, communication) ==
    LET db1 == [db EXCEPT !.parties = Append(@, OtherPartyRow(case, party_data.first_name,
                              party_data.last_name, party_data.company_name, party_data.role))]
    IN  _cite(db1, communication, "other_party", party_data,
              Obj("otherparty", Len(db1.parties)), "at-fault party")

\* one round of the "Other parties" loop
PersistParty(db, case, party_data, communication) ==
    LET hits == {i \in DOMAIN db.parties :
                    /\ db.parties[i].case = case
                    /\ db.parties[i].first_name = party_data.first_name
                    /\ db.parties[i].last_name = party_data.last_name}
        db1 == [db EXCEPT !.parties = Append(@, OtherPartyRow(case, party_data.first_name,
                              party_data.last_name, party_data.company_name, party_data.role))]
    IN  IF Cardinality(hits) > 1 THEN MultipleObjectsReturned(db)
        ELSE IF hits # {} THEN db
        ELSE _cite(db1, communication, "other_party", party_data,
                   Obj("otherparty", Len(db1.parties)), "at-fault party")

PersistMedicalKeyedByDetails(db, case, mp_data, communication) ==
    LET facility_name == mp_data.facility_name
        fhits == {i \in DOMAIN db.facilities : db.facilities[i].name = facility_name}
        dbF == IF facility_name = EmptyStr \/ fhits # {} THEN db
               ELSE [db EXCEPT !.facilities = Append(@, MedicalFacilityRow(facility_name))]
        facility == IF facility_name = EmptyStr THEN 0
                    ELSE IF fhits # {} THEN Latest(fhits)
                    ELSE Len(dbF.facilities)
        phits == {i \in DOMAIN db.providers :
                    /\ db.providers[i].first_name = mp_data.first_name
                    /\ db.providers[i].last_name = mp_data.last_name}
        dbN == [dbF EXCEPT !.providers = Append(@, MedicalProviderRow(mp_data.first_name,
                              mp_data.last_name, facility, mp_data.specialty))]
        dbP == IF phits # {} THEN dbF
               ELSE _cite(dbN, communication, "medical_provider", mp_data,
                          Obj("medicalprovider", Len(dbN.providers)), "treating provider")
        provider == IF phits # {} THEN Latest(phits) ELSE Len(dbP.providers)
        thits == {i \in DOMAIN db.treatments :
                    /\ db.treatments[i].case = case
                    /\ db.treatments[i].provider = provider
                    /\ db.treatments[i].treatment_type = mp_data.treatment_type
                    /\ db.treatments[i].diagnosis = mp_data.diagnosis}
    IN  IF facility_name # EmptyStr /\ Cardinality(fhits) > 1 THEN MultipleObjectsReturned(db)
        ELSE IF Cardinality(phits) > 1 THEN MultipleObjectsReturned(dbF)
        ELSE IF dbP.err # NoError THEN dbP
        ELSE IF Cardinality(thits) > 1 THEN MultipleObjectsReturned(dbP)
        ELSE IF thits # {} THEN dbP
        ELSE [dbP EXCEPT !.treatments = Append(@, TreatmentRow(case, provider,
                              mp_data.treatment_type, mp_data.diagnosis))]

\* one round of the "Medical providers + treatments" loop
PersistMedical(db, case, mp_data, communication) ==
    LET facility_name == mp_data.facility_name
        fhits == {i \in DOMAIN db.facilities : db.facilities[i].name = facility_name}
        dbF == IF facility_name = EmptyStr \/ fhits # {} THEN db
               ELSE [db EXCEPT !.facilities = Append(@, MedicalFacilityRow(facility_name))]
        facility == IF facility_name = EmptyStr THEN 0
                    ELSE IF fhits # {} THEN Latest(fhits)
                    ELSE Len(dbF.facilities)
        phits == {i \in DOMAIN db.providers :
                    /\ db.providers[i].first_name = mp_data.first_name
                    /\ db.providers[i].last_name = mp_data.last_name}
        dbN == [dbF EXCEPT !.providers = Append(@, MedicalProviderRow(mp_data.first_name,
                              mp_data.last_name, facility, mp_data.specialty))]
        dbP == IF phits # {} THEN dbF
               ELSE _cite(dbN, communication, "medical_provider", mp_data,
                          Obj("medicalprovider", Len(dbN.providers)), "treating provider")
        provider == IF phits # {} THEN Latest(phits) ELSE Len(dbP.providers)
        thits == {i \in DOMAIN db.treatments :
                    /\ db.treatments[i].case = case
                    /\ db.treatments[i].provider = provider}
    IN  IF facility_name # EmptyStr /\ Cardinality(fhits) > 1 THEN MultipleObjectsReturned(db)
        ELSE IF Cardinality(phits) > 1 THEN MultipleObjectsReturned(dbF)
        ELSE IF dbP.err # NoError THEN dbP
        ELSE IF Cardinality(thits) > 1 THEN MultipleObjectsReturned(dbP)
        ELSE IF thits # {} THEN dbP
        ELSE [dbP EXCEPT !.treatments = Append(@, TreatmentRow(case, provider,
                              mp_data.treatment_type, mp_data.diagnosis))]

PersistDamageAlwaysCites(db, case, dmg_data, communication) ==
    LET hits == {i \in DOMAIN db.damages :
                    /\ db.damages[i].case = case
                    /\ db.damages[i].category = dmg_data.category}
        db1 == IF hits # {} THEN db
               ELSE [db EXCEPT !.damages = Append(@, DamageRow(case, dmg_data.category,
                              dmg_data.description, dmg_data.estimated_amount))]
    IN  IF Cardinality(hits) > 1 THEN MultipleObjectsReturned(db)
        ELSE _cite(db1, communication, "financial_expense", dmg_data, NoObj, "")

\* one round of the "Damages" loop
PersistDamage(db, case, dmg_data, communication) ==
    LET hits == {i \in DOMAIN db.damages :
                    /\ db.damages[i].case = case
                    /\ db.damages[i].category = dmg_data.category}
        db1 == [db EXCEPT !.damages = Append(@, DamageRow(case, dmg_data.category,
                              dmg_data.description, dmg_data.estimated_amount))]
    IN  IF Cardinality(hits) > 1 THEN MultipleObjectsReturned(db)
        ELSE IF hits # {} THEN db
        ELSE _cite(db1, communication, "financial_expense", dmg_data, NoObj, "")

RECURSIVE PersistLoop(_, _, _, _, _)
\* the loops of persist over a list of entries of one kind; an exception ends
\* persist where it is raised
PersistLoop(db, case, kind, entries, communication) ==
    IF entries = <<>> \/ db.err # NoError THEN db
    ELSE LET db1 == CASE kind = "parties" -> PersistParty(db, case, Head(entries), communication)
                      [] kind = "medical" -> PersistMedical(db, case, Head(entries), communication)
                      [] kind = "damages" -> PersistDamage(db, case, Head(entries), communication)
         IN  PersistLoop(db1, case, kind, Tail(entries), communication)

\* persist(case, result, communication)
persist(db, case, result, communication) ==
    LET db0 == UpdateCase(db, case, result.info)
        db1 == PersistLoop(db0, case, "parties", result.parties, communication)
        db2 == PersistLoop(db1, case, "medical", result.medical, communication)
    IN  PersistLoop(db2, case, "damages", result.damages, communication)

NoFinding == [none |-> TRUE]

\* meta.get(field): the last metadata finding of that field
Meta(findings, field) ==
    LET idx == {i \in 1..Len(findings) :
                    /\ Get(findings[i], "finding_type", "") = "metadata"
                    /\ findings[i].field = field}
    IN  IF idx = {} THEN NoFinding ELSE findings[Latest(idx)]

\* _cite_meta of _write_metadata_citations
_cite_meta(db, communication, citation_key, finding, obj, label) ==
    IF db.err # NoError \/ finding = NoFinding THEN db
    ELSE WriteCitation(db,
                       CitationRow(communication, citation_key,
                                   Or(Get(finding, "quote", None),
                                      PyStr(Get(finding, "value", EmptyStr))),
                                   Get(finding, "transcript_index", None),
                                   _CONF(Get(finding, "confidence", High))),
                       obj, label)

\* _write_metadata_citations(communication, meta, client)
_write_metadata_citations(db, communication, findings, client) ==
    LET db1 == _cite_meta(db, communication, "caller_name", Meta(findings, "caller_name"),
                          Obj("client", client), "identified caller")
        db2 == _cite_meta(db1, communication, "accident_date",
                          Meta(findings, "accident_date"), NoObj, "")
        db3 == _cite_meta(db2, communication, "case_type", Meta(findings, "case_type"),
                          NoObj, "")
    IN  _cite_meta(db3, communication, "incident_location",
                   Meta(findings, "incident_location"), NoObj, "")

\* no extracted record is stored yet
NoRecords ==
    /\ parties = <<>>
    /\ facilities = <<>>
    /\ providers = <<>>
    /\ treatments = <<>>
    /\ damages = <<>>
    /\ citations = <<>>
    /\ refs = <<>>

Today == <<2025, 11, 3>>

InitPipe ==
    /\ today = Today
    /\ cache = NoCache
    /\ live = {}
    /\ turns = NoTurns
    /\ op = "none"
    /\ pc = "idle"
    /\ res = NoRes
    /\ ret = <<>>
    /\ err = NoError
    /\ llm_log = <<>>
    /\ filled = FALSE
    /\ cur = 0
    /\ frame = NoFrame
    /\ query = NoQuery
    /\ found = NoMatch
    /\ hist = <<>>

\* a store holding one pending communication of a client's case
InitParseStore ==
    /\ firms = <<LawFirmRow(<<"F","i","n","c","h">>)>>
    /\ clients = <<ClientRow(1, <<"J","a","n","e">>, <<"S","m","i","t","h">>)>>
    /\ cases = <<CaseRow(1, "auto", <<2024, 3, 3>>, EmptyStr)>>
    /\ \E t \in Transcripts : comms = <<CommRow(1, 1, t, "pending")>>
    /\ NoRecords

InitParse == api_key \in BOOLEAN /\ InitPipe /\ InitParseStore

\* every request is served by a service instance of its own (views.py)
Next ==
    \/ StartParse(TRUE)
    \/ ParseHelper(ParseLists)
    \/ ParseFinish
    \/ \E a \in live : Release(a)

Spec == InitParse /\ [][Next]_vars

\* one service instance serves one request after the other
NextReuse ==
    \/ StartParse(FALSE)
    \/ ParseHelper(ParseLists)
    \/ ParseFinish
    \/ \E a \in live : Release(a)

SpecReuse == InitParse /\ [][NextReuse]_vars

(***************************************************************************)
(* The matcher on its own: one call of _find_existing_case on a stored    *)
(* set of clients and cases                                               *)
(***************************************************************************)
MaxStoredCases == 2

D1 == <<2024, 3, 3>>

D2 == <<2024, 4, 4>>

Jane == <<"J","a","n","e">>

Smith == <<"S","m","i","t","h">>

\* 39 characters
LongHead == <<"1","2","0","0"," ","N","o","r","t","h"," ","R","i","v","e","r","s","i","d","e"," ","B","o","u","l","e","v","a","r","d"," ","S","u","i","t","e"," ","1","2">>

MainSt == <<"M","a","i","n"," ","S","t">>

OakPark == <<"O","a","k"," ","P","a","r","k">>

LongElmwood == LongHead \o <<","," ","E","l","m","w","o","o","d">>

\* its 40th character is a space, its tail is the whole of OakPark
LongOakPark == LongHead \o <<" ">> \o OakPark

StoredFirms == <<LawFirmRow(<<"F","i","n","c","h">>), LawFirmRow(<<"O","t","h","e","r">>)>>

\* client tables: the same caller under two spellings and under two firms
ClientTables ==
    LET a == ClientRow(1, Jane, Smith)
        b == ClientRow(1, <<"J","A","N","E">>, <<"S","M","I","T","H">>)
        o == ClientRow(2, Jane, Smith)
    IN  {<<>>, <<a>>, <<o>>, <<a, b>>, <<b, a>>, <<a, o>>, <<o, a>>}

\* the cases a stored client can have: type, date, location
CaseShapes ==
    { <<"auto", D1, OakPark>>,
      <<"auto", D2, MainSt>>,
      <<"auto", D2, LongElmwood>>,
      <<"slip_fall", D2, MainSt>> }

CaseTables(clients_) ==
    SeqsUpTo({CaseRow(c, t[1], t[2], t[3]) : c \in DOMAIN clients_, t \in CaseShapes},
             MaxStoredCases)

Queries ==
    {Query(f, n[1], n[2], t, d, l) :
        f \in DOMAIN StoredFirms,
        n \in {<<<<"j","a","n","e">>, <<"S","M","I","T","H">>>>, <<Jane, <<"S","m","y","t","h">>>>},
        t \in {NoType, "auto"},
        d \in {NoDate, D1},
        l \in {None, <<"m","a","i","n"," ","s","t">>, LongOakPark}}

InitMatch ==
    /\ today = Today
    /\ api_key = TRUE
    /\ cache = NoCache
    /\ live = {}
    /\ turns = NoTurns
    /\ op = "match"
    /\ pc = "called"
    /\ res = NoRes
    /\ ret = <<>>
    /\ err = NoError
    /\ llm_log = <<>>
    /\ filled = FALSE
    /\ cur = 0
    /\ frame = NoFrame
    /\ hist = <<>>
    /\ firms = StoredFirms
    /\ clients \in ClientTables
    /\ cases \in CaseTables(clients)
    /\ comms = <<>>
    /\ NoRecords
    /\ query \in Queries
    /\ found = NoMatch

\* the call runs on the stored rows and returns
FindExistingCase ==
    /\ op = "match"
    /\ pc = "called"
    /\ found' = _find_existing_case(clients, cases, query)
    /\ pc' = "returned"
    /\ UNCHANGED <<today, api_key, cache, live, turns, op, res, ret, err, llm_log, filled, cur,
                   dbVars, query, ingestVars>>

NextMatch == FindExistingCase

SpecMatch == InitMatch /\ [][NextMatch]_vars

(***************************************************************************)
(* Bootstrap ingest: ClientCommunicationViewSet.ingest and                 *)
(* TranscriptParserService.ingest                                          *)
(*                                                                         *)
(* Lookups by field=value compare exactly, letter case included, as on the *)
(* SQLite and PostgreSQL backends.                                         *)
(***************************************************************************)
MaxComms == 4

UnknownLawFirm == <<"U","n","k","n","o","w","n"," ","L","a","w"," ","F","i","r","m">>

M(fld, value) == F("metadata", fld, value, 0)

\* the findings lists an answer to an ingest can carry
IngestLists ==
    LET jane == M("caller_name", <<"J","a","n","e"," ","S","m","i","t","h">>)
        JANE == M("caller_name", <<"J","A","N","E"," ","S","M","I","T","H">>)
        d1 == M("accident_date", <<"2","0","2","4","-","0","3","-","0","3">>)
        d2 == M("accident_date", <<"2","0","2","4","-","0","4","-","0","4">>)
        type == M("case_type", <<"A","u","t","o"," ","A","c","c","i","d","e","n","t">>)
        place == M("incident_location", MainSt)
        firm == M("law_firm_name", <<"F","i","n","c","h">>)
        party == F("individual", "other_party", <<"A","c","m","e"," ","T","r","u","c","k","i","n","g"," ","L","L","C">>, 1)
        doctor == F("individual", "medical_provider", <<"D","r","."," ","J","o","h","n"," ","L","e","e">>, 1)
        hospital == F("individual", "medical_provider", <<"M","e","r","c","y"," ","H","o","s","p","i","t","a","l">>, 1)
        bills == F("individual", "financial_expense", <<"m","e","d","i","c","a","l"," ","b","i","l","l","s"," ","$","1",",","2","0","0">>, 1)
    IN  { <<jane, d1>>,
          <<JANE, d2>>,
          <<firm, jane, type, place, party, doctor, bills>>,
          <<firm, jane, d1, type, place, bills, hospital>> }

IngestTranscripts == {<<>>, <<TheTurn>>}

IngestOrderFirmLate ==
    <<"call", "info", "match", "firm", "communication", "medical", "insurance", "parties",
      "damages", "persist", "done">>

IngestOrderDoneFirst ==
    <<"call", "firm", "info", "match", "communication", "medical", "insurance", "parties",
      "damages", "done", "persist">>

\* the position after each step of ingest
IngestOrder ==
    <<"call", "firm", "info", "match", "communication", "medical", "insurance", "parties",
      "damages", "persist", "done">>

\* the tables persist and _write_metadata_citations work on
Db ==
    [cases |-> cases, parties |-> parties, facilities |-> facilities,
     providers |-> providers, treatments |-> treatments, damages |-> damages,
     citations |-> citations, refs |-> refs, err |-> NoError]

Written(db) ==
    /\ cases' = db.cases
    /\ parties' = db.parties
    /\ facilities' = db.facilities
    /\ providers' = db.providers
    /\ treatments' = db.treatments
    /\ damages' = db.damages
    /\ citations' = db.citations
    /\ refs' = db.refs

\* the view reads the request, builds a service and calls ingest
StartIngest(max, ids) ==
    /\ Stopped
    /\ Len(comms) < max
    /\ \E t \in IngestTranscripts, a \in Addr \ live, id \in ids :
        /\ turns' = [id |-> a, content |-> t]
        /\ live' = live \cup {a}
        /\ frame' = [NoFrame EXCEPT !.law_firm_id = id]
    /\ cache' = NoCache
    /\ op' = "ingest"
    /\ pc' = "call"
    /\ res' = NoRes
    /\ ret' = <<>>
    /\ err' = NoError
    /\ llm_log' = <<>>
    /\ filled' = FALSE
    /\ cur' = 0
    /\ UNCHANGED <<today, api_key, dbVars, matchVars, hist>>

\* 1. findings = self._call_llm(turns)
IngestCall(lists) ==
    /\ op = "ingest"
    /\ pc = "call"
    /\ \E resp \in Answers(lists) :
        LET o == _call_llm(cache, turns, api_key, resp)
        IN  /\ CallLLM(resp, o)
            /\ IF o.err = NoError
               THEN /\ frame' = [frame EXCEPT !.findings = o.ret]
                    /\ pc' = NextPc(IngestOrder, pc)
               ELSE /\ frame' = frame
                    /\ pc' = "raised"
    /\ UNCHANGED <<today, api_key, live, turns, op, res, cur, dbVars, matchVars, hist>>

\* a law_firm_id that is not the text of a UUID: LawFirm.id is a UUIDField,
\* and a lookup by such a value raises ValidationError
NotAUuid == -1

\* 3. the law firm is looked up by its id, or by its name and created if new
IngestFirm ==
    /\ op = "ingest"
    /\ pc = "firm"
    /\ LET firm_name == Or(MetaValue(frame.findings, "law_firm_name"), UnknownLawFirm)
           hits == {i \in DOMAIN firms : firms[i].name = firm_name}
       IN  IF frame.law_firm_id = NotAUuid
           THEN /\ err' = [cls |-> "ValidationError", why |-> "LawFirm"]
                /\ pc' = "raised"
                /\ UNCHANGED <<firms, frame>>
           ELSE IF frame.law_firm_id # 0
           THEN IF frame.law_firm_id \in DOMAIN firms
                THEN /\ frame' = [frame EXCEPT !.law_firm = frame.law_firm_id]
                     /\ pc' = NextPc(IngestOrder, pc)
                     /\ UNCHANGED <<firms, err>>
                ELSE /\ err' = [cls |-> "DoesNotExist", why |-> "LawFirm"]
                     /\ pc' = "raised"
                     /\ UNCHANGED <<firms, frame>>
           ELSE IF Cardinality(hits) > 1
                THEN /\ err' = [cls |-> "MultipleObjectsReturned", why |-> "LawFirm"]
                     /\ pc' = "raised"
                     /\ UNCHANGED <<firms, frame>>
                ELSE /\ firms' = IF hits = {} THEN Append(firms, LawFirmRow(firm_name)) ELSE firms
                     /\ frame' = [frame EXCEPT !.law_firm =
                                      IF hits = {} THEN Len(firms) + 1 ELSE Latest(hits)]
                     /\ pc' = NextPc(IngestOrder, pc)
                     /\ err' = err
    /\ UNCHANGED <<today, api_key, cache, live, turns, op, res, ret, llm_log, filled, cur,
                   clients, cases, comms, recVars, matchVars, hist>>

\* 4. the caller's name is split and _extract_incident_info called
IngestInfo(lists) ==
    /\ op = "ingest"
    /\ pc = "info"
    /\ \E resp \in Answers(lists) :
        LET o == _call_llm(cache, turns, api_key, resp)
            caller_name == Or(MetaValue(frame.findings, "caller_name"), EmptyStr)
        IN  /\ CallLLM(resp, o)
            /\ frame' = [frame EXCEPT !.first_name = SplitFirst(Strip(caller_name)),
                                      !.last_name = SplitLast(Strip(caller_name))]
            /\ IF o.err = NoError
               THEN /\ res' = HelperResult("info", o.ret)
                    /\ pc' = NextPc(IngestOrder, pc)
               ELSE /\ res' = res
                    /\ pc' = "raised"
    /\ UNCHANGED <<today, api_key, live, turns, op, cur, dbVars, matchVars, hist>>

NoneMatchedAlways(existing) == TRUE

\* "if existing: ... else:" takes its else branch
NoneMatched(existing) == existing = NoMatch

\* 5. the matcher is asked; on no match the client is looked up by its exact
\* names or created, and a case created
IngestMatch ==
    /\ op = "ingest"
    /\ pc = "match"
    /\ LET q == Query(frame.law_firm, frame.first_name, frame.last_name,
                      res.info.incident_type, res.info.incident_date,
                      res.info.incident_location)
           existing == _find_existing_case(clients, cases, q)
           hits == {i \in DOMAIN clients :
                       /\ clients[i].law_firm = frame.law_firm
                       /\ clients[i].first_name = frame.first_name
                       /\ clients[i].last_name = frame.last_name}
           client == IF hits = {} THEN Len(clients) + 1 ELSE Latest(hits)
       IN  /\ query' = q
           /\ found' = existing
           /\ IF ~NoneMatched(existing)
              THEN /\ frame' = [frame EXCEPT !.client = existing[1], !.case = existing[2],
                                             !.matched = TRUE]
                   /\ pc' = NextPc(IngestOrder, pc)
                   /\ UNCHANGED <<clients, cases, err>>
              ELSE IF Cardinality(hits) > 1
              THEN /\ err' = [cls |-> "MultipleObjectsReturned", why |-> "Client"]
                   /\ pc' = "raised"
                   /\ UNCHANGED <<clients, cases, frame>>
              ELSE /\ clients' = IF hits = {}
                                 THEN Append(clients, ClientRow(frame.law_firm,
                                                 frame.first_name, frame.last_name))
                                 ELSE clients
                   /\ cases' = Append(cases,
                                   CaseRow(client,
                                           IF res.info.incident_type = NoType
                                           THEN BlankType ELSE res.info.incident_type,
                                           res.info.incident_date,
                                           Or(res.info.incident_location, EmptyStr)))
                   /\ frame' = [frame EXCEPT !.client = client, !.case = Len(cases) + 1]
                   /\ pc' = NextPc(IngestOrder, pc)
                   /\ err' = err
    /\ UNCHANGED <<today, api_key, cache, live, turns, op, res, ret, llm_log, filled, cur,
                   firms, comms, recVars, hist>>

CitesMetadataAlways(matched) == TRUE

\* 6b. "if not matched:"
CitesMetadata(matched) == ~matched

ReuseCommunication(rows, row) ==
    LET same == {i \in DOMAIN rows : rows[i].case = row.case}
    IN  IF same = {} THEN Append(rows, row) ELSE [rows EXCEPT ![Latest(same)] = row]

\* ClientCommunication.objects.create(...)
CreateCommunication(rows, row) == Append(rows, row)

\* 6. the communication is created, and 6b. the metadata cited when the
\* client and case are new
IngestCommunication ==
    /\ op = "ingest"
    /\ pc = "communication"
    /\ comms' = CreateCommunication(comms, CommRow(frame.client, frame.case, turns.content,
                                                   "processing"))
    /\ cur' = Len(comms')
    /\ LET db == IF CitesMetadata(frame.matched)
                 THEN _write_metadata_citations(Db, Len(comms) + 1, frame.findings,
                                                frame.client)
                 ELSE Db
       IN  /\ Written(db)
           /\ err' = db.err
           /\ pc' = IF db.err = NoError THEN NextPc(IngestOrder, pc) ELSE "raised"
    /\ UNCHANGED <<today, api_key, cache, live, turns, op, res, ret, llm_log, filled,
                   firms, clients, matchVars, ingestVars>>

\* 7. the other four extraction helpers
IngestHelper(lists) ==
    /\ op = "ingest"
    /\ pc \in {"medical", "insurance", "parties", "damages"}
    /\ \E resp \in Answers(lists) :
        LET o == _call_llm(cache, turns, api_key, resp)
        IN  /\ CallLLM(resp, o)
            /\ IF o.err = NoError
               THEN /\ res' = HelperResult(pc, o.ret)
                    /\ pc' = NextPc(IngestOrder, pc)
               ELSE /\ res' = res
                    /\ pc' = "raised"
    /\ UNCHANGED <<today, api_key, live, turns, op, cur, dbVars, matchVars, ingestVars>>

\* 8. the risks are flagged and 9. self.persist(case, result,
\* communication=communication)
IngestPersist ==
    /\ op = "ingest"
    /\ pc = "persist"
    /\ res' = [res EXCEPT !.raw_flags = _flag_risks(res, cache, today)]
    /\ LET db == persist(Db, frame.case, res, cur)
       IN  /\ Written(db)
           /\ err' = db.err
           /\ pc' = IF db.err = NoError THEN NextPc(IngestOrder, pc) ELSE "raised"
    /\ UNCHANGED <<today, api_key, cache, live, turns, op, ret, llm_log, filled, cur,
                   firms, clients, comms, matchVars, ingestVars>>

\* what the history keeps of a completed ingest
Completed ==
    [query |-> query, matched |-> frame.matched, clients |-> Len(clients),
     cases |-> Len(cases)]

\* 10. the communication is marked done and 11. ingest returns
IngestDone ==
    /\ op = "ingest"
    /\ pc = "done"
    /\ comms' = [comms EXCEPT ![cur].parse_status = "done"]
    /\ pc' = "returned"
    /\ hist' = IF hist = <<>> THEN <<Completed>> ELSE <<hist[Len(hist)], Completed>>
    /\ UNCHANGED <<today, api_key, cache, live, turns, op, res, ret, err, llm_log, filled, cur,
                   firms, clients, cases, recVars, matchVars, frame>>

\* an empty store
InitIngest ==
    /\ api_key \in BOOLEAN
    /\ InitPipe
    /\ firms = <<>>
    /\ clients = <<>>
    /\ cases = <<>>
    /\ comms = <<>>
    /\ NoRecords

NextIngest ==
    \* the law_firm_id of a request: none (0), a stored firm's, or one of no firm
    \/ StartIngest(MaxComms, 0..(Len(firms) + 1))
    \/ IngestCall(IngestLists)
    \/ IngestFirm
    \/ IngestInfo(IngestLists)
    \/ IngestMatch
    \/ IngestCommunication
    \/ IngestHelper(IngestLists)
    \/ IngestPersist
    \/ IngestDone
    \/ \E a \in live : Release(a)

SpecIngest == InitIngest /\ [][NextIngest]_vars

(***************************************************************************)
(* Ingest of any request: the law_firm_id may be malformed and a finding   *)
(* may carry a transcript_index the citation table rejects.                *)
(***************************************************************************)
MaxRuns == 2

\* the findings of the end-to-end scenario
ScenarioFindings ==
    <<M("caller_name", <<"J","a","n","e"," ","S","m","i","t","h">>),
      M("case_type", <<"a","u","t","o","_","a","c","c","i","d","e","n","t">>),
      M("accident_date", <<"2","0","2","4","-","0","3","-","0","3">>),
      F("individual", "other_party", <<"A","c","m","e"," ","T","r","u","c","k","i","n","g"," ","L","L","C">>, 1),
      F("individual", "medical_provider",
        <<"D","r","."," ","J","o","h","n"," ","L","e","e"," ","a","t"," ","S","t","."," ","M","a","r","y","'","s"," ","H","o","s","p","i","t","a","l">>, 1),
      F("individual", "financial_expense",
        <<"m","y"," ","m","e","d","i","c","a","l"," ","b","i","l","l","s"," ","a","r","e"," ","p","i","l","i","n","g"," ","u","p">>, 1)>>

\* the findings lists an answer to such an ingest can carry
RequestLists ==
    LET jane == M("caller_name", <<"J","a","n","e"," ","S","m","i","t","h">>)
        d1 == M("accident_date", <<"2","0","2","4","-","0","3","-","0","3">>)
        type == M("case_type", <<"A","u","t","o"," ","A","c","c","i","d","e","n","t">>)
        place == M("incident_location", MainSt)
        firm == M("law_firm_name", <<"F","i","n","c","h">>)
        party == F("individual", "other_party", <<"A","c","m","e"," ","T","r","u","c","k","i","n","g"," ","L","L","C">>, 1)
        doctor == F("individual", "medical_provider", <<"D","r","."," ","J","o","h","n"," ","L","e","e">>, 1)
        bills == F("individual", "financial_expense", <<"m","e","d","i","c","a","l"," ","b","i","l","l","s"," ","$","1",",","2","0","0">>, 1)
        carrier == F("individual", "insurance_provider", <<"S","t","a","t","e"," ","F","a","r","m">>, 1)
        driver == F("individual", "other_party", <<"B","o","b"," ","R","a","y">>, -1)
    IN  { <<firm, jane, d1, type, place, party, doctor, bills, carrier>>,
          ScenarioFindings,
          <<firm, jane, d1, driver, bills>>,
          <<firm, F("metadata", "caller_name", <<"J","a","n","e"," ","S","m","i","t","h">>, -1), d1>> }

NextRequest ==
    \/ StartIngest(MaxRuns, {NotAUuid} \cup 0..(Len(firms) + 1))
    \/ IngestCall(RequestLists)
    \/ IngestFirm
    \/ IngestInfo(RequestLists)
    \/ IngestMatch
    \/ IngestCommunication
    \/ IngestHelper(RequestLists)
    \/ IngestPersist
    \/ IngestDone
    \/ \E a \in live : Release(a)

SpecRequest == InitIngest /\ [][NextRequest]_vars

(***************************************************************************)
(* Finding Extractor                                                       *)
(***************************************************************************)
\* how many helpers of the running invocation have returned
HelpersDone ==
    CASE pc = "parties" -> 1
      [] pc = "medical" -> 2
      [] pc = "insurance" -> 3
      [] pc = "damages" -> 4
      [] pc \in {"finish", "returned"} -> 5
      [] OTHER -> 0

\* the findings list of the first answer this invocation got, if it is one
AnsweredList ==
    /\ llm_log # <<>>
    /\ llm_log[1].kind = "message"
    /\ llm_log[1].content.json = "object"
    /\ "findings" \in DOMAIN llm_log[1].content.obj
    /\ llm_log[1].content.obj.findings.is_list

AnsweredItems == llm_log[1].content.obj.findings.items

\* C1: for a non-empty turns list, one invocation makes exactly one external
\* call however many helpers run against it: every helper past the first
\* successful _call_llm is served from the cache written for that turns list,
\* and all helper results are classifications of those same findings.
C1_OneCallPerTurns ==
    /\ Len(llm_log) <= 1
    /\ (turns.content # <<>> /\ HelpersDone >= 1) =>
            /\ Len(llm_log) = 1
            /\ CacheHit(cache, turns)
            /\ ret = cache.data
            /\ res.info = IncidentInfo(cache.data)
            /\ (HelpersDone >= 2 => res.parties = Parties(cache.data))
            /\ (HelpersDone >= 3 => res.medical = Medicals(cache.data))
            /\ (HelpersDone >= 4 => res.insurance = Insurances(cache.data))
            /\ (HelpersDone >= 5 => res.damages = Damages(cache.data))

C1_Witness ==
    /\ op = "parse" /\ pc = "returned"
    /\ turns.content # <<>>
    /\ Len(llm_log) = 1
    /\ cache.data # <<>>

\* C2: for an empty turns list extraction returns an empty finding list and
\* makes no external call, so every classified list of the result is empty.
C2_EmptyTurnsNoCall ==
    (turns.content = <<>> /\ HelpersDone >= 1) =>
        /\ ret = <<>>
        /\ llm_log = <<>>
        /\ err = NoError
        /\ res.parties = <<>> /\ res.medical = <<>>
        /\ res.insurance = <<>> /\ res.damages = <<>>

C2_Witness ==
    /\ op = "parse" /\ pc = "returned"
    /\ turns.content = <<>>
    /\ api_key

\* C3: an answer that is not parseable JSON, or a JSON object without a
\* findings list (key absent, or present but no list), makes extraction raise
\* RuntimeError; it never returns a finding list.
C3_MalformedAnswerRaises ==
    (/\ llm_log # <<>>
     /\ llm_log[1].kind = "message"
     /\ \/ llm_log[1].content.json = "invalid"
        \/ /\ llm_log[1].content.json = "object"
           /\ \/ "findings" \notin DOMAIN llm_log[1].content.obj
              \/ ~llm_log[1].content.obj.findings.is_list)
    => (pc = "raised" /\ err.cls = "RuntimeError" /\ cache = NoCache)

\* C4: a failed extraction (credential missing, or the external call failing)
\* ends the invocation with an error: no finding list is returned, the call is
\* attempted at most once, nothing is cached; and zero findings without an
\* external call happen for an empty transcript only.
C4_FailureIsReported ==
    /\ (/\ op = "parse" /\ pc # "info" /\ turns.content # <<>>
        /\ (~api_key \/ (llm_log # <<>> /\ llm_log[1].kind = "OpenAIError")))
       => /\ pc = "raised"
          /\ err.cls = "RuntimeError"
          /\ Len(llm_log) <= 1
          /\ (~api_key => llm_log = <<>>)
          /\ cache = NoCache
          /\ ret = <<>> /\ res = NoRes
    /\ (HelpersDone >= 1 /\ ret = <<>> /\ llm_log = <<>>) => turns.content = <<>>

C4_Witness ==
    /\ pc = "raised"
    /\ turns.content # <<>>
    /\ llm_log # <<>> /\ llm_log[1].kind = "OpenAIError"

HasValue(f) == "value" \in DOMAIN f /\ f.value # None

\* how many findings of a family the answer gives a non-blank value for
Valued(field) ==
    Cardinality({i \in DOMAIN AnsweredItems :
                    /\ AnsweredItems[i].field = field
                    /\ HasValue(AnsweredItems[i])
                    /\ Strip(AnsweredItems[i].value) # EmptyStr})

\* C5: a finding whose value is null or missing in the answer is in neither
\* the cached findings nor any classified list; it is dropped without an error
\* and the other findings are kept, in their order.
C5_NullValuedDropped ==
    (AnsweredList /\ HelpersDone >= 1) =>
        /\ err = NoError
        /\ \A i \in DOMAIN cache.data : HasValue(cache.data[i])
        /\ cache.data = SelectSeq(AnsweredItems, HasValue)
        /\ (HelpersDone >= 2 => Len(res.parties) = Valued("other_party"))
        /\ (HelpersDone >= 3 => Len(res.medical) = Valued("medical_provider"))
        /\ (HelpersDone >= 4 => Len(res.insurance) = Valued("insurance_provider"))
        /\ (HelpersDone >= 5 => Len(res.damages) = Valued("financial_expense"))

C5_Witness ==
    /\ pc = "returned"
    /\ AnsweredList
    /\ \E i, j \in DOMAIN AnsweredItems :
        /\ ~HasValue(AnsweredItems[i])
        /\ HasValue(AnsweredItems[j])
        /\ AnsweredItems[i].field = "other_party"
        /\ AnsweredItems[j].field = "other_party"
    /\ Len(res.parties) = 1

\* C6: the cache is keyed by the identity of the turns list: on one service
\* instance every new non-empty batch gets an external call of its own and
\* the findings of that call, never the findings of an earlier batch.
C6_FreshCallPerBatch ==
    (turns.content # <<>> /\ HelpersDone >= 1) =>
        (filled /\ Len(llm_log) = 1)

(***************************************************************************)
(* Case/Client Matcher                                                     *)
(***************************************************************************)
\* the call of the matcher has returned
Asked == op = "match" /\ pc = "returned"

\* the clients of the asked law firm whose names equal the asked names when
\* letter case is ignored
Candidates ==
    {i \in DOMAIN clients :
        /\ clients[i].law_firm = query.law_firm
        /\ Lower(clients[i].first_name) = Lower(query.first_name)
        /\ Lower(clients[i].last_name) = Lower(query.last_name)}

\* the cases of client c whose date is the asked date
SameDate(c) ==
    {k \in DOMAIN cases : cases[k].client = c /\ cases[k].incident_date = query.incident_date}

\* the cases of client c that have the asked type and whose location contains
\* the anchor, letter case ignored
SameTypeNear(c, anchor) ==
    {k \in DOMAIN cases :
        /\ cases[k].client = c
        /\ cases[k].incident_type = query.incident_type
        /\ Contains(Lower(cases[k].incident_location), Lower(anchor))}

\* C8: when a case of the resolved client has the asked date, the call returns
\* a case with that date, wherever a case matching by type and location stands
\* in creation order; a case is returned for its type and location only when no
\* case of the client has the asked date.
C8_DateBeforeTypeLocation ==
    (Asked /\ found # NoMatch) =>
        LET c == found[1]
            k == found[2]
        IN  /\ (query.incident_date # NoDate /\ SameDate(c) # {}) => k \in SameDate(c)
            /\ (k \notin SameDate(c)) => (query.incident_date = NoDate \/ SameDate(c) = {})

\* a date match is returned although a later case matches by type and location
C8_Witness ==
    /\ Asked
    /\ found # NoMatch
    /\ query.incident_date # NoDate
    /\ found[2] \in SameDate(found[1])
    /\ \E k \in SameTypeNear(found[1], LocationAnchor(query.incident_location)) :
        /\ query.incident_type # NoType
        /\ Truthy(query.incident_location)
        /\ k \notin SameDate(found[1])
        /\ k > found[2]

\* C9: the returned client belongs to the asked law firm and its names equal
\* the asked names when letter case is ignored; with no such client the call
\* returns no match; and a client stored under another spelling is found.
C9_NameIgnoringCaseWithinFirm ==
    Asked =>
        /\ (found # NoMatch) => found[1] \in Candidates
        /\ (Candidates = {}) => found = NoMatch
        /\ (Candidates # {} /\ query.incident_date # NoDate
              /\ SameDate(Latest(Candidates)) # {}) => found # NoMatch

\* "jane SMITH" finds the client stored as "Jane Smith", while a client of the
\* same name is stored under the other firm
C9_Witness ==
    /\ Asked
    /\ found # NoMatch
    /\ clients[found[1]].first_name # query.first_name
    /\ clients[found[1]].last_name # query.last_name
    /\ \E i \in DOMAIN clients :
        /\ clients[i].law_firm # query.law_firm
        /\ Lower(clients[i].first_name) = Lower(query.first_name)
        /\ Lower(clients[i].last_name) = Lower(query.last_name)

\* a case returned for its type and location, not for its date
ByTypeLocation ==
    /\ Asked
    /\ found # NoMatch
    /\ (query.incident_date = NoDate \/ found[2] \notin SameDate(found[1]))

\* C10 as stated: a case returned by the type-and-location tier has the asked
\* type and a location that contains the first 40 characters of the asked
\* location, letter case ignored.
C10_FirstFortyChars ==
    ByTypeLocation =>
        found[2] \in SameTypeNear(found[1], Prefix(query.incident_location, AnchorLen))

\* C10: a case returned by the type-and-location tier has the asked type and a
\* location that contains, letter case ignored, the first 40 characters of the
\* asked location with the white space at their two ends removed; what follows
\* the 40th character of the asked location does not change the answer.
C10_StrippedFirstFortyChars ==
    Asked =>
        /\ ByTypeLocation =>
              found[2] \in SameTypeNear(found[1],
                                        Strip(Prefix(query.incident_location, AnchorLen)))
        /\ Truthy(query.incident_location) =>
              found = _find_existing_case(clients, cases,
                          [query EXCEPT !.incident_location = Prefix(@, AnchorLen)])

\* an asked location longer than 40 characters finds a case whose location
\* shares only these 40 characters, stripped, with it
C10_Witness ==
    /\ ByTypeLocation
    /\ Len(query.incident_location) > AnchorLen
    /\ ~Contains(Lower(cases[found[2]].incident_location), Lower(query.incident_location))


(***************************************************************************)
(* Bootstrap ingest                                                        *)
(***************************************************************************)
\* the last two completed ingests were given the same law firm, the same
\* caller name and the same incident details, a date among them
SameDetailsAgain ==
    /\ Len(hist) = 2
    /\ hist[1].query = hist[2].query
    /\ hist[2].query.incident_date # NoDate

\* C7: an ingest that is given the law firm, caller name and incident date of
\* the ingest before it returns matched = true and leaves the number of
\* clients and of cases as that ingest left them.
C7_SecondIngestMatches ==
    SameDetailsAgain =>
        /\ hist[2].matched
        /\ hist[2].clients = hist[1].clients
        /\ hist[2].cases = hist[1].cases

(***************************************************************************)
(* persist on its own: calls on a stored case with a drawn result, with    *)
(* or without a communication.                                             *)
(***************************************************************************)
MaxPersists == 3

\* the results persist is called with
PersistResults ==
    LET acme == F("individual", "other_party", <<"A","c","m","e"," ","T","r","u","c","k","i","n","g"," ","L","L","C">>, 1)
        zenith == F("individual", "other_party", <<"Z","e","n","i","t","h"," ","L","o","g","i","s","t","i","c","s"," ","I","n","c">>, 1)
        bob == F("individual", "other_party", <<"B","o","b"," ","R","a","y">>, 1)
        lee == F("individual", "medical_provider", <<"D","r","."," ","J","o","h","n"," ","L","e","e">>, 1)
        bills == F("individual", "financial_expense", <<"m","e","d","i","c","a","l"," ","b","i","l","l","s"," ","$","1",",","2","0","0">>, 1)
        Result(fs, date, type, treatment) ==
            [NoRes EXCEPT !.info.incident_date = date,
                          !.info.incident_type = type,
                          !.parties = Parties(fs),
                          !.medical = [i \in DOMAIN Medicals(fs) |->
                                          [Medicals(fs)[i] EXCEPT !.treatment_type = treatment,
                                                                  !.diagnosis = treatment]],
                          !.damages = Damages(fs)]
    IN  { Result(<<acme, zenith>>, NoDate, NoType, EmptyStr),
          Result(<<acme, lee, bills>>, D2, "slip_fall", EmptyStr),
          Result(<<lee>>, NoDate, "auto", <<"s","u","r","g","e","r","y">>),
          Result(<<bob, lee, bills>>, D1, NoType, <<"t","h","e","r","a","p","y">>),
          Result(<<>>, D2, "slip_fall", EmptyStr) }

\* a store holding a case with blank incident fields, a case with all of
\* them set, and a communication
InitPersist ==
    /\ api_key = TRUE
    /\ InitPipe
    /\ firms = <<LawFirmRow(<<"F","i","n","c","h">>)>>
    /\ clients = <<ClientRow(1, <<"J","a","n","e">>, <<"S","m","i","t","h">>)>>
    /\ cases = <<CaseRow(1, BlankType, NoDate, EmptyStr), CaseRow(1, "auto", D1, MainSt)>>
    /\ comms = <<CommRow(1, 1, <<TheTurn>>, "done")>>
    /\ NoRecords

\* service.persist(case, result, communication=communication), the
\* communication being 0 when none is given
CallPersist ==
    /\ Len(hist) < MaxPersists
    /\ \E case \in DOMAIN cases, result \in PersistResults, communication \in {0} \cup DOMAIN comms :
        LET db == persist(Db, case, result, communication)
        IN  /\ Written(db)
            /\ err' = db.err
            /\ pc' = IF db.err = NoError THEN "returned" ELSE "raised"
            /\ res' = result
            /\ cur' = communication
            /\ frame' = [NoFrame EXCEPT !.case = case]
            /\ hist' = Append(hist, [case |-> case, communication |-> communication])
    /\ op' = "persist"
    /\ UNCHANGED <<today, api_key, cache, live, turns, ret, llm_log, filled,
                   firms, clients, comms, matchVars>>

NextPersist == CallPersist

SpecPersist == InitPersist /\ [][NextPersist]_vars

(***************************************************************************)
(* _flag_risks on its own: one call on a drawn result, cache and day.      *)
(***************************************************************************)
\* the days date.today() is drawn from
EvaluationDays == {Today, <<2024, 2, 29>>}

\* incident dates 599, 600 and 601 days before each evaluation day, and one
\* after it
IncidentDates ==
    {<<2024, 3, 14>>, <<2024, 3, 13>>, <<2024, 3, 12>>, <<2025, 11, 8>>,
     <<2022, 7, 10>>, <<2022, 7, 9>>, <<2022, 7, 8>>}

\* the results _flag_risks is called on
FlagResults ==
    LET acme == F("individual", "other_party", <<"A","c","m","e"," ","T","r","u","c","k","i","n","g"," ","L","L","C">>, 1)
        bob == F("individual", "other_party", <<"B","o","b"," ","R","a","y">>, 1)
        carrier == F("individual", "insurance_provider", <<"S","t","a","t","e"," ","F","a","r","m">>, 1)
    IN  {[NoRes EXCEPT !.info.incident_date = d, !.info.incident_type = t,
                       !.parties = Parties(ps), !.insurance = Insurances(ins)] :
            d \in IncidentDates \cup {NoDate},
            t \in {"auto", "slip_fall", NoType},
            ps \in {<<>>, <<acme>>, <<acme, bob>>},
            ins \in {<<>>, <<carrier>>}}

\* the service's cache when _flag_risks reads it
FlagCaches ==
    {NoCache,
     [turns_id |-> 1, data |-> <<F("individual", "injury", <<"P","r","i","o","r"," ","i","n","j","u","r","y"," ","t","o"," ","t","h","e"," ","n","e","c","k">>, 1)>>],
     [turns_id |-> 1, data |-> <<F("individual", "other_party", <<"B","o","b"," ","R","a","y">>, 1),
                                 F("metadata", "liability", <<"t","h","e","y"," ","d","e","n","i","e","d"," ","l","i","a","b","i","l","i","t","y">>, 0)>>],
     [turns_id |-> 1, data |-> <<F("individual", "injury", <<"a"," ","P","r","e","-","E","x","i","s","t","i","n","g"," ","b","a","c","k"," ","p","r","o","b","l","e","m">>, 1),
                                 F("individual", "other_party", <<"B","o","b"," ","R","a","y"," ","s","a","y","s"," ","h","e"," ","w","a","s"," ","N","O","T"," ","A","T"," ","F","A","U","L","T">>, 1)>>],
     [turns_id |-> 1, data |-> <<F("individual", "injury", <<"n","o"," ","p","r","i","o","r">>, 1),
                                 F("individual", "injury", <<"i","n","j","u","r","y"," ","t","o"," ","t","h","e"," ","k","n","e","e">>, 2)>>]}

InitFlags ==
    /\ today \in EvaluationDays
    /\ api_key = TRUE
    /\ cache \in FlagCaches
    /\ live = {}
    /\ turns = NoTurns
    /\ op = "flags"
    /\ pc = "called"
    /\ res \in FlagResults
    /\ ret = <<>>
    /\ err = NoError
    /\ llm_log = <<>>
    /\ filled = FALSE
    /\ cur = 0
    /\ frame = NoFrame
    /\ query = NoQuery
    /\ found = NoMatch
    /\ hist = <<>>
    /\ firms = <<>>
    /\ clients = <<>>
    /\ cases = <<>>
    /\ comms = <<>>
    /\ NoRecords

\* result.raw_flags = self._flag_risks(result)
FlagRisks ==
    /\ op = "flags"
    /\ pc = "called"
    /\ res' = [res EXCEPT !.raw_flags = _flag_risks(res, cache, today)]
    /\ pc' = "returned"
    /\ UNCHANGED <<today, api_key, cache, live, turns, op, ret, err, llm_log, filled, cur,
                   dbVars, matchVars, ingestVars>>

NextFlags == FlagRisks

SpecFlags == InitFlags /\ [][NextFlags]_vars

(***************************************************************************)
(* _extract_damages on its own: the cached findings are drawn, the helper  *)
(* is applied once.                                                        *)
(***************************************************************************)

MaxExpenses == 2

ExpenseFindings ==
    SeqsUpTo(
        {F("individual", "financial_expense", <<"L","o","s","t"," ","W","A","G","E","S"," ","$","2",",","0","0","0">>, 1),
         F("individual", "financial_expense", <<"l","o","s","t"," ","e","a","r","n","i","n","g","s">>, 1),
         F("individual", "financial_expense", <<"f","u","t","u","r","e"," ","m","e","d","i","c","a","l"," ","w","a","g","e">>, 1),
         F("individual", "financial_expense", <<"F","u","t","u","r","e"," ","M","E","D","I","C","A","L"," ","c","a","r","e">>, 1),
         F("individual", "financial_expense", <<"f","u","t","u","r","e"," ","h","o","s","p","i","t","a","l"," ","s","t","a","y">>, 1),
         F("individual", "financial_expense", <<"h","o","s","p","i","t","a","l"," ","b","i","l","l">>, 1),
         F("individual", "financial_expense", <<"d","o","c","t","o","r"," ","v","i","s","i","t">>, 1),
         F("individual", "financial_expense", <<"m","e","d","i","c","a","l"," ","c","a","r"," ","r","e","p","a","i","r">>, 1),
         F("individual", "financial_expense", <<"v","e","h","i","c","l","e"," ","r","e","p","a","i","r">>, 1),
         F("individual", "financial_expense", <<"r","e","n","t","a","l"," ","c","a","r">>, 1),
         F("individual", "financial_expense", <<"t","o","w"," ","t","r","u","c","k">>, 1),
         F("individual", "financial_expense", <<"s","c","a","r","r","i","n","g">>, 1),
         F("individual", "financial_expense", <<"p","a","i","n"," ","a","n","d"," ","s","u","f","f","e","r","i","n","g">>, 1),
         F("individual", "financial_expense", <<" "," "," ">>, 1),
         F("individual", "other_party", <<"h","o","s","p","i","t","a","l"," ","b","i","l","l">>, 1)},
        MaxExpenses)

InitDamages ==
    /\ today = Today
    /\ api_key = TRUE
    /\ cache \in {[turns_id |-> 1, data |-> fs] : fs \in ExpenseFindings}
    /\ live = {}
    /\ turns = NoTurns
    /\ op = "damages"
    /\ pc = "called"
    /\ res = NoRes
    /\ ret = <<>>
    /\ err = NoError
    /\ llm_log = <<>>
    /\ filled = FALSE
    /\ cur = 0
    /\ frame = NoFrame
    /\ query = NoQuery
    /\ found = NoMatch
    /\ hist = <<>>
    /\ firms = <<>>
    /\ clients = <<>>
    /\ cases = <<>>
    /\ comms = <<>>
    /\ NoRecords

\* result.damages = self._extract_damages(turns), on a cache hit
ExtractDamages ==
    /\ op = "damages"
    /\ pc = "called"
    /\ res' = [res EXCEPT !.damages = Damages(cache.data)]
    /\ pc' = "returned"
    /\ UNCHANGED <<today, api_key, cache, live, turns, op, ret, err, llm_log, filled, cur,
                   dbVars, matchVars, ingestVars>>

NextDamages == ExtractDamages

SpecDamages == InitDamages /\ [][NextDamages]_vars

(***************************************************************************)
(* Claims about the orchestrator, ingest.                                  *)
(***************************************************************************)

\* an ingest has returned its triple
Ingested == op = "ingest" /\ pc = "returned"

\* C11: ingest creates a client or a case only in its matching step and only
\* when the matcher found nothing. When the matcher found a pair, matched is
\* true, the client and case tables are left as they were and the
\* communication is attached to exactly that pair; when it found nothing,
\* matched is false and exactly one case is added.
C11_CreatesOnlyWhenUnmatched ==
    [][/\ (op = "ingest" /\ pc = "match" /\ found' # NoMatch) =>
              /\ frame'.matched
              /\ <<frame'.client, frame'.case>> = found'
              /\ clients' = clients
              /\ cases' = cases
       /\ (op = "ingest" /\ pc = "match" /\ found' = NoMatch /\ pc' # "raised") =>
              /\ ~frame'.matched
              /\ Len(cases') = Len(cases) + 1
              /\ Len(clients') \in {Len(clients), Len(clients) + 1}
              /\ frame'.case = Len(cases')
       /\ ~(op = "ingest" /\ pc = "match") =>
              /\ Len(clients') = Len(clients)
              /\ Len(cases') = Len(cases)
       /\ (op = "ingest" /\ pc = "communication") =>
              /\ Len(comms') = Len(comms) + 1
              /\ comms'[Len(comms')].client = frame.client
              /\ comms'[Len(comms')].case = frame.case
       /\ (op = "ingest" /\ pc = "done") =>
              /\ frame'.matched = (found # NoMatch)
              /\ comms'[cur].case = frame.case]_vars

\* a second ingest was matched to the case of the first and has returned
C11_Witness ==
    /\ Ingested
    /\ frame.matched
    /\ Len(comms) = 2
    /\ Len(cases) = 1
    /\ comms[2].case = comms[1].case
    /\ comms[2].client = comms[1].client

\* C12: the communication step of an ingest runs once per invocation, before
\* any communication of that invocation exists, and appends exactly one row,
\* leaving every stored row as it was; no other step adds a row or changes a
\* row other than the invocation's own; an ingest that returns has its own
\* row, the newest one.
C12_OneNewCommunication ==
    [][/\ (op = "ingest" /\ pc = "communication") =>
              /\ cur = 0
              /\ Len(comms') = Len(comms) + 1
              /\ SubSeq(comms', 1, Len(comms)) = comms
              /\ cur' = Len(comms')
       /\ ~(op = "ingest" /\ pc = "communication") =>
              /\ Len(comms') = Len(comms)
              /\ \A i \in DOMAIN comms : i # cur => comms'[i] = comms[i]
       /\ (op = "ingest" /\ pc' = "returned") =>
              /\ cur' = Len(comms')
              /\ cur' > 0]_vars

\* two ingests returned, the second matched to the case of the first, and
\* each has a communication of its own
C12_Witness ==
    /\ Ingested
    /\ frame.matched
    /\ cur = 2
    /\ comms[2].case = comms[1].case
    /\ \A i \in 1..2 : comms[i].parse_status = "done"

\* the citation keys of the identity an unmatched ingest bootstraps
BootstrapKeys == {"caller_name", "accident_date", "case_type", "incident_location"}

\* C13: a citation under one of the four bootstrap keys is only ever added by
\* the communication step of an ingest whose matched is false, for that
\* ingest's own communication; a matched ingest adds none in that step, and
\* no step removes or changes a stored citation.
C13_BootstrapCitationsOnlyUnmatched ==
    [][/\ Len(citations') >= Len(citations)
       /\ SubSeq(citations', 1, Len(citations)) = citations
       /\ \A i \in (Len(citations) + 1)..Len(citations') :
              citations'[i].citation_key \in BootstrapKeys =>
                  /\ op = "ingest"
                  /\ pc = "communication"
                  /\ ~frame.matched
                  /\ citations'[i].communication = cur'
       /\ (op = "ingest" /\ pc = "communication" /\ frame.matched) =>
              citations' = citations]_vars

\* a matched ingest returned having cited facts of its own, none of them under
\* a bootstrap key, after an unmatched ingest cited the identity
C13_Witness ==
    /\ Ingested
    /\ frame.matched
    /\ \E i \in DOMAIN citations : citations[i].communication = cur
    /\ \A i \in DOMAIN citations :
           citations[i].communication = cur => citations[i].citation_key \notin BootstrapKeys
    /\ \E i \in DOMAIN citations :
           /\ citations[i].communication # cur
           /\ citations[i].citation_key = "caller_name"

(***************************************************************************)
(* Claims about persist.                                                   *)
(***************************************************************************)

\* C14: the store never holds two other parties of one case with the same
\* first and last name, two medical providers with the same first and last
\* name, or two damages of one case with the same category.
C14_NaturalKeysUnique ==
    /\ \A i, j \in DOMAIN parties :
           (/\ parties[i].case = parties[j].case
            /\ parties[i].first_name = parties[j].first_name
            /\ parties[i].last_name = parties[j].last_name) => i = j
    /\ \A i, j \in DOMAIN providers :
           (/\ providers[i].first_name = providers[j].first_name
            /\ providers[i].last_name = providers[j].last_name) => i = j
    /\ \A i, j \in DOMAIN damages :
           (/\ damages[i].case = damages[j].case
            /\ damages[i].category = damages[j].category) => i = j

\* persist has run twice on one case with the same party, provider and damage
C14_Witness ==
    /\ Ingested
    /\ frame.matched
    /\ Len(comms) = 2
    /\ comms[1].parse_status = "done"
    /\ Len(res.parties) = 1 /\ Len(res.medical) = 1 /\ Len(res.damages) = 1
    /\ Len(parties) = 1 /\ Len(providers) = 1 /\ Len(damages) = 1
    /\ parties[1].case = frame.case
    /\ parties[1].last_name = res.parties[1].last_name
    /\ providers[1].last_name = res.medical[1].last_name
    /\ damages[1].category = res.damages[1].category

(***************************************************************************)
(* Claims about the parse status of a communication.                       *)
(***************************************************************************)

\* C15: a parse or ingest that ended with an error does not leave its
\* communication pending or processing (the status becomes failed), and one
\* that returned left it done.
C15_NoErrorLeavesPending ==
    /\ (pc = "raised" /\ cur # 0) => comms[cur].parse_status \notin {"pending", "processing"}
    /\ (pc = "returned" /\ cur # 0) => comms[cur].parse_status = "done"

(***************************************************************************)
(* Claims about the citations of persist.                                  *)
(***************************************************************************)

\* C16: a citation or reference write that fails is not fatal: no invocation
\* ends with the error of a citation write, and once persist is over every
\* damage of the result is stored for the case.
C16_CitationFailureNonFatal ==
    /\ ~(pc = "raised" /\ err.why = "ClientCommunicationCitation")
    /\ (op = "ingest" /\ pc \in {"done", "returned"}) =>
           \A d \in DOMAIN res.damages :
               \E i \in DOMAIN damages :
                   /\ damages[i].case = frame.case
                   /\ damages[i].category = res.damages[d].category

(***************************************************************************)
(* Claims about the response of the ingest endpoint.                       *)
(***************************************************************************)

\* the status of the response views.ingest builds when service.ingest is over
IngestResponse ==
    IF pc = "returned" THEN 201
    ELSE IF err.cls = "DoesNotExist" THEN 400
    ELSE 500

\* the invocation ended with an error of _call_llm
ExtractionFailed ==
    pc = "raised" /\ err.cls \in {"RuntimeError", "TypeError", "AttributeError"}

\* C17: an ingest given a law_firm_id that names no law firm, and whose
\* extraction did not fail, is answered 400; a failed extraction is answered
\* 500, and 400 is never the answer to anything but the missing law firm.
C17_UnknownFirmIsClientError ==
    (op = "ingest" /\ pc = "raised") =>
        /\ (/\ frame.law_firm_id # 0
            /\ frame.law_firm_id \notin DOMAIN firms
            /\ ~ExtractionFailed) => IngestResponse = 400
        /\ ExtractionFailed => IngestResponse = 500
        /\ IngestResponse = 400 =>
               (frame.law_firm_id # 0 /\ frame.law_firm_id \notin DOMAIN firms)

\* the references of citation i
ReferencesOf(i) == {r \in DOMAIN refs : refs[r].citation = i}

\* the citations under a key
CitedUnder(key) == {i \in DOMAIN citations : citations[i].citation_key = key}

\* C18: every stored reference is of a kind in the allowed set and belongs to
\* one stored citation; the citations of facts without an entity of an allowed
\* kind (a damage, the incident fields of the case) have no reference; and a
\* persist that ends without error has written one citation for every damage
\* it created.
C18_ReferencesOfAllowedKinds ==
    [][/\ \A r \in DOMAIN refs' :
              /\ refs'[r].content_type \in ALLOWED_CONTENT_TYPES
              /\ refs'[r].citation \in DOMAIN citations'
       /\ \A i \in DOMAIN citations' :
              citations'[i].citation_key \in
                  {"financial_expense", "accident_date", "case_type", "incident_location"}
              => \A r \in DOMAIN refs' : refs'[r].citation # i
       /\ (op = "ingest" /\ pc = "persist" /\ pc' # "raised") =>
              Len(damages') - Len(damages) =
                  Cardinality({i \in DOMAIN citations' :
                                  /\ i > Len(citations)
                                  /\ citations'[i].citation_key = "financial_expense"})]_vars

\* an ingest returned having cited a damage without a reference and a party,
\* a provider and the client with one reference each
C18_Witness ==
    /\ Ingested
    /\ \E i \in CitedUnder("financial_expense") : ReferencesOf(i) = {}
    /\ \E i \in CitedUnder("other_party") :
           \E r \in ReferencesOf(i) : refs[r].content_type = "otherparty"
    /\ \E i \in CitedUnder("medical_provider") :
           \E r \in ReferencesOf(i) : refs[r].content_type = "medicalprovider"
    /\ \E i \in CitedUnder("caller_name") :
           \E r \in ReferencesOf(i) : refs[r].content_type = "client"
    /\ \A i \in DOMAIN citations : Cardinality(ReferencesOf(i)) <= 1

(***************************************************************************)
(* Claims about the classified entity dicts.                               *)
(***************************************************************************)

\* the private provenance fields of an entity dict
ProvenanceFields == {"_cited_text", "_turn_index", "_confidence"}

\* C19: every entity dict of the four classified lists (other parties,
\* medical providers, insurance carriers, damages) carries the three private
\* provenance fields.
C19_EveryEntityCarriesProvenance ==
    \A list \in {res.parties, res.medical, res.insurance, res.damages} :
        \A i \in DOMAIN list : ProvenanceFields \subseteq DOMAIN list[i]

(***************************************************************************)
(* Claims about the risk flags.                                            *)
(***************************************************************************)

\* _flag_risks has returned
Flagged == op = "flags" /\ pc = "returned"

Has(flag) == \E i \in DOMAIN res.raw_flags : res.raw_flags[i] = flag

\* C20: statute_of_limitations_risk is among the flags exactly when the
\* incident date is set and lies more than 600 days before the evaluation
\* day: 600 days do not flag, 601 do, no incident date never does.
C20_SolBoundary ==
    Flagged =>
        /\ Has("statute_of_limitations_risk") <=>
               /\ res.info.incident_date # NoDate
               /\ DaysBetween(today, res.info.incident_date) > 600
        /\ (today = <<2025, 11, 3>> /\ res.info.incident_date = <<2024, 3, 13>>)
               => ~Has("statute_of_limitations_risk")
        /\ (today = <<2025, 11, 3>> /\ res.info.incident_date = <<2024, 3, 12>>)
               => Has("statute_of_limitations_risk")
        /\ (today = <<2024, 2, 29>> /\ res.info.incident_date = <<2022, 7, 9>>)
               => ~Has("statute_of_limitations_risk")
        /\ (today = <<2024, 2, 29>> /\ res.info.incident_date = <<2022, 7, 8>>)
               => Has("statute_of_limitations_risk")

\* _flag_risks returned for an incident exactly 600 days before the day
C20_Witness ==
    /\ Flagged
    /\ res.info.incident_date # NoDate
    /\ DaysBetween(today, res.info.incident_date) = 600
    /\ ~Has("statute_of_limitations_risk")

\* C21: uninsured_motorist is among the flags exactly when the incident type
\* is "auto" and no insurance carrier was extracted; with any other incident
\* type, or none, it is absent whatever the insurance carriers are.
C21_UninsuredMotorist ==
    Flagged =>
        /\ Has("uninsured_motorist") <=>
               (res.info.incident_type = "auto" /\ Len(res.insurance) = 0)
        /\ res.info.incident_type # "auto" => ~Has("uninsured_motorist")

\* _flag_risks returned for a result of another incident type without an
\* insurance carrier, and for none was the flag raised
C21_Witness ==
    /\ Flagged
    /\ res.info.incident_type \in {"slip_fall", NoType}
    /\ res.insurance = <<>>
    /\ ~Has("uninsured_motorist")

\* the fixed order of the flags
FlagOrder ==
    <<"statute_of_limitations_risk", "uninsured_motorist", "multiple_defendants",
      "pre_existing_condition", "liability_disputed">>

\* the text the keyword scans read: the cached findings' values, in lower
\* case, joined by single spaces
ScannedText == IF cache = NoCache THEN EmptyStr ELSE Lower(JoinValues(cache.data))

\* the condition of each flag on the result _flag_risks was called on
FlagCondition(flag) ==
    CASE flag = "statute_of_limitations_risk" ->
             /\ res.info.incident_date # NoDate
             /\ DaysBetween(today, res.info.incident_date) > 600
      [] flag = "uninsured_motorist" ->
             res.info.incident_type = "auto" /\ Len(res.insurance) = 0
      [] flag = "multiple_defendants" -> Len(res.parties) > 1
      [] flag = "pre_existing_condition" ->
             \E kw \in RiskKeywords.pre_existing_condition : Contains(ScannedText, kw)
      [] flag = "liability_disputed" ->
             \E kw \in RiskKeywords.liability_disputed : Contains(ScannedText, kw)

\* C22: raw_flags is the fixed order of the five flags restricted to those
\* whose condition holds: no flag twice, no flag out of order, no flag
\* without its condition, no condition without its flag, and the empty list,
\* without a sentinel, when no condition holds.
C22_FlagsInFixedOrder ==
    Flagged =>
        /\ res.raw_flags = SelectSeq(FlagOrder, FlagCondition)
        /\ \A i, j \in DOMAIN res.raw_flags : res.raw_flags[i] = res.raw_flags[j] => i = j
        /\ (\A k \in DOMAIN FlagOrder : ~FlagCondition(FlagOrder[k])) => res.raw_flags = <<>>

\* _flag_risks returned all five flags
C22_Witness ==
    /\ Flagged
    /\ res.raw_flags = FlagOrder

(***************************************************************************)
(* Claims about the end-to-end scenario.                                   *)
(***************************************************************************)

\* the first ingest into the empty store has returned, and its extraction
\* answered the findings of the scenario
ScenarioIngested ==
    /\ Ingested
    /\ Len(comms) = 1
    /\ frame.findings = ScenarioFindings

\* C23: the scenario's ingest into an empty store leaves one client Jane
\* Smith, one case (auto, 2024-03-03), one company other party without first
\* and last name, one medical facility "St. Mary's Hospital", one medical
\* provider John Lee, one damage of category medical without an amount, and
\* the flag uninsured_motorist without multiple_defendants.
C23_ScenarioRecords ==
    ScenarioIngested =>
        /\ Len(clients) = 1
        /\ clients[1].first_name = <<"J","a","n","e">>
        /\ clients[1].last_name = <<"S","m","i","t","h">>
        /\ Len(cases) = 1
        /\ cases[1].incident_type = "auto"
        /\ cases[1].incident_date = <<2024, 3, 3>>
        /\ Len(parties) = 1
        /\ parties[1].first_name = EmptyStr
        /\ parties[1].last_name = EmptyStr
        /\ parties[1].company_name =
               <<"A","c","m","e"," ","T","r","u","c","k","i","n","g"," ","L","L","C">>
        /\ Len(facilities) = 1
        /\ facilities[1].name =
               <<"S","t","."," ","M","a","r","y","'","s"," ","H","o","s","p","i","t","a","l">>
        /\ Len(providers) = 1
        /\ providers[1].first_name = <<"J","o","h","n">>
        /\ providers[1].last_name = <<"L","e","e">>
        /\ Len(damages) = 1
        /\ damages[1].category = "medical"
        /\ damages[1].estimated_amount = NoAmount
        /\ Has("uninsured_motorist")
        /\ ~Has("multiple_defendants")

(***************************************************************************)
(* Claims about what persist stores.                                       *)
(***************************************************************************)

\* C24: a persist that returns for a case which had no other party has
\* stored, for every entry of the result's other parties, an other party of
\* that case with the entry's first name, last name and company name.
C24_EveryPartyStored ==
    [][(/\ op' = "persist"
        /\ pc' = "returned"
        /\ \A i \in DOMAIN parties : parties[i].case # frame'.case) =>
           \A e \in DOMAIN res'.parties :
               \E i \in DOMAIN parties' :
                   /\ parties'[i].case = frame'.case
                   /\ parties'[i].first_name = res'.parties[e].first_name
                   /\ parties'[i].last_name = res'.parties[e].last_name
                   /\ parties'[i].company_name = res'.parties[e].company_name]_vars

\* persist has returned
Persisted == op = "persist" /\ pc = "returned"

\* the citations a step added under a key
AddedUnder(key) ==
    {i \in DOMAIN citations' : i > Len(citations) /\ citations'[i].citation_key = key}

\* C25: a persist that returns keeps every stored citation and reference;
\* given a communication it adds one citation of that communication for each
\* other party, medical provider and damage it created and nothing else, so
\* none for a record it found; a second persist of the same result to the
\* same case adds no citation and no reference; without a communication it
\* adds none.
C25_OneCitationPerCreatedRecord ==
    [][(op' = "persist" /\ pc' = "returned") =>
           /\ SubSeq(citations', 1, Len(citations)) = citations
           /\ SubSeq(refs', 1, Len(refs)) = refs
           /\ cur' # 0 =>
                  /\ Cardinality(AddedUnder("other_party")) = Len(parties') - Len(parties)
                  /\ Cardinality(AddedUnder("medical_provider")) =
                         Len(providers') - Len(providers)
                  /\ Cardinality(AddedUnder("financial_expense")) = Len(damages') - Len(damages)
                  /\ Len(citations') - Len(citations) =
                         (Len(parties') - Len(parties)) + (Len(providers') - Len(providers))
                         + (Len(damages') - Len(damages))
                  /\ \A i \in DOMAIN citations' :
                         i > Len(citations) => citations'[i].communication = cur'
           /\ cur' = 0 => (citations' = citations /\ refs' = refs)
           /\ (Persisted /\ res' = res /\ frame'.case = frame.case) =>
                  (citations' = citations /\ refs' = refs)]_vars

\* two persists with the communication on one case: the second found the
\* provider of the first and created a party and a damage, and each of the
\* three records has its one citation
C25_Witness ==
    /\ Persisted
    /\ Len(hist) = 2
    /\ hist[1] = hist[2]
    /\ cur = 1
    /\ Len(res.parties) = 1 /\ Len(res.medical) = 1 /\ Len(res.damages) = 1
    /\ Len(parties) = 1 /\ Len(providers) = 1 /\ Len(damages) = 1 /\ Len(treatments) = 1
    /\ treatments[1].treatment_type # res.medical[1].treatment_type
    /\ Len(citations) = 3
    /\ Cardinality(CitedUnder("medical_provider")) = 1


\* the fields persist may fill
FilledFields == {"incident_date", "incident_type"}

\* persist fills a field of its case in this step
Fills(f) ==
    IF f = "incident_date"
    THEN cases[frame'.case].incident_date = NoDate /\ res'.info.incident_date # NoDate
    ELSE cases[frame'.case].incident_type = BlankType /\ res'.info.incident_type # NoType

\* persist sets blank fields of its case to the result's values, keeps the
\* fields that are set and leaves every other case as it was
FillsOnlyBlank ==
    LET c == frame'.case
    IN  /\ DOMAIN cases' = DOMAIN cases
        /\ \A k \in DOMAIN cases : k # c => cases'[k] = cases[k]
        /\ DOMAIN cases'[c] = DOMAIN cases[c]
        /\ \A f \in FilledFields :
               cases'[c][f] = IF Fills(f) THEN res'.info[f] ELSE cases[c][f]

\* C26 as stated: persist fills only blank fields, changes no field of the case
\* other than incident_date and incident_type, and does not save the case
\* when it fills neither.
C26_OnlyDateAndTypeChange ==
    [][op' = "persist" =>
           /\ FillsOnlyBlank
           /\ \A f \in DOMAIN cases[frame'.case] \ FilledFields :
                  cases'[frame'.case][f] = cases[frame'.case][f]
           /\ (\A f \in FilledFields : ~Fills(f)) => cases' = cases]_vars

\* C26: persist, returning or raising, leaves every other case as it was and
\* on its own case sets a blank incident_date or incident_type to the result's
\* value when the result has one; a field already set keeps its value whatever
\* the result holds; incident_location, client and every field other than
\* these two and updated_at are never changed; the case is saved, stamping
\* updated_at, exactly when a field is filled.
C26_OnlyBlankCaseFieldsFilled ==
    [][op' = "persist" =>
           /\ FillsOnlyBlank
           /\ \A f \in DOMAIN cases[frame'.case] \ (FilledFields \cup {"updated_at"}) :
                  cases'[frame'.case][f] = cases[frame'.case][f]
           /\ cases'[frame'.case].updated_at # cases[frame'.case].updated_at
                  <=> \E f \in FilledFields : Fills(f)
           /\ (\A f \in FilledFields : ~Fills(f)) => cases' = cases]_vars

\* a result with another date and another type was persisted to the case
\* that had both set, and the case still holds its own, unsaved; the blank
\* case was filled and saved
C26_Witness ==
    /\ Persisted
    /\ frame.case = 2
    /\ res.info.incident_date = D2
    /\ res.info.incident_type = "slip_fall"
    /\ cases[2] = CaseRow(1, "auto", D1, MainSt)
    /\ cases[1].incident_date = D1
    /\ cases[1].incident_type = "auto"
    /\ cases[1].updated_at = 2


\* the financial_expense findings of the cache, in order
ExpenseFindingsOf(data) ==
    SelectSeq(data, LAMBDA f : f.finding_type = "individual" /\ f.field = "financial_expense")

\* text has one of the terms, whatever the case of its letters
HasTerm(text, terms) == \E t \in terms : Contains(Lower(text), t)

\* the category that keyword precedence over three term groups gives a text
ByPrecedence(text, wage, medical, property) ==
    IF HasTerm(text, wage) THEN "lost_wages"
    ELSE IF HasTerm(text, {<<"f","u","t","u","r","e">>}) /\ HasTerm(text, {<<"m","e","d","i","c","a","l">>}) THEN "future_medical"
    ELSE IF HasTerm(text, medical) THEN "medical"
    ELSE IF HasTerm(text, property) THEN "property"
    ELSE "other"

ListedWageTerms == {<<"w","a","g","e">>, <<"l","o","s","t"," ","i","n","c","o","m","e">>}

ListedMedicalTerms == {<<"m","e","d","i","c","a","l">>, <<"h","o","s","p","i","t","a","l">>, <<"b","i","l","l">>, <<"t","r","e","a","t","m","e","n","t">>}

ListedPropertyTerms == {<<"v","e","h","i","c","l","e">>, <<"p","r","o","p","e","r","t","y">>, <<"r","e","p","a","i","r">>}

DamageCategories == {"lost_wages", "future_medical", "medical", "property", "other"}

\* C27 as stated: every financial_expense finding gets one damage entry whose
\* category is given by precedence over the terms wage, lost income; future
\* with medical; medical, hospital, bill, treatment; vehicle, property,
\* repair; and is other when its value has none of them.
C27_CategoryByListedTerms ==
    (op = "damages" /\ pc = "returned") =>
        LET fs == ExpenseFindingsOf(cache.data)
        IN  /\ Len(res.damages) = Len(fs)
            /\ \A i \in DOMAIN fs :
                   /\ i \in DOMAIN res.damages
                   /\ res.damages[i].category =
                          ByPrecedence(fs[i].value, ListedWageTerms, ListedMedicalTerms,
                                       ListedPropertyTerms)

\* C27: every financial_expense finding whose value is not blank gets one
\* damage entry, in order, with exactly one of the five categories, given by
\* first match of case-insensitive substring tests: wage, lost income, lost
\* earnings give lost_wages; else future with medical gives future_medical;
\* else medical, hospital, doctor, bill, treatment give medical; else
\* property, vehicle, car, truck, repair give property; else other.  A
\* finding with a blank value gets no entry.
C27_CategoryByKeywordPrecedence ==
    (op = "damages" /\ pc = "returned") =>
        LET fs == SelectSeq(ExpenseFindingsOf(cache.data),
                            LAMBDA f : \E i \in DOMAIN f.value : f.value[i] # " ")
        IN  /\ Len(res.damages) = Len(fs)
            /\ \A i \in DOMAIN fs :
                   /\ res.damages[i].description = Strip(fs[i].value)
                   /\ res.damages[i].category \in DamageCategories
                   /\ res.damages[i].category =
                          ByPrecedence(fs[i].value,
                                       ListedWageTerms \cup {<<"l","o","s","t"," ","e","a","r","n","i","n","g","s">>},
                                       ListedMedicalTerms \cup {<<"d","o","c","t","o","r">>},
                                       ListedPropertyTerms \cup {<<"c","a","r">>, <<"t","r","u","c","k">>})

\* a value with future, medical and wage is lost_wages, one with future and
\* medical only is future_medical
C27_Witness ==
    /\ op = "damages"
    /\ pc = "returned"
    /\ Len(res.damages) = 2
    /\ res.damages[1].description = <<"f","u","t","u","r","e"," ","m","e","d","i","c","a","l"," ","w","a","g","e">>
    /\ res.damages[1].category = "lost_wages"
    /\ res.damages[2].description = <<"F","u","t","u","r","e"," ","M","E","D","I","C","A","L"," ","c","a","r","e">>
    /\ res.damages[2].category = "future_medical"


\* C28: starting without treatments, every step keeps each stored treatment
\* row as it is, and no two treatment rows have the same case and provider;
\* so a persist for a case and provider that has a treatment adds no second
\* row and leaves its treatment_type and diagnosis alone.
C28_OneTreatmentPerCaseAndProvider ==
    [][/\ \A i \in DOMAIN treatments :
              i \in DOMAIN treatments' /\ treatments'[i] = treatments[i]
       /\ \A i, j \in DOMAIN treatments' :
              (/\ treatments'[i].case = treatments'[j].case
               /\ treatments'[i].provider = treatments'[j].provider) => i = j]_vars

\* a persist with other treatment details for the case and provider of the
\* stored treatment has returned, and that treatment is the only one
C28_Witness ==
    /\ Persisted
    /\ Len(res.medical) = 1
    /\ res.medical[1].treatment_type = <<"t","h","e","r","a","p","y">>
    /\ Len(treatments) = 1
    /\ treatments[1].case = frame.case
    /\ treatments[1].treatment_type = <<"s","u","r","g","e","r","y">>
    /\ treatments[1].diagnosis = <<"s","u","r","g","e","r","y">>
    /\ providers[treatments[1].provider].last_name = res.medical[1].last_name


\* ingest has just failed in extraction or in the lookup of the law_firm_id
\* it was given
FailedEarly ==
    \/ ExtractionFailed
    \/ /\ pc = "raised"
       /\ frame.law_firm_id # 0
       /\ err.why = "LawFirm"

\* C29: from its start to the lookup of the law firm an ingest writes
\* nothing: the step that starts it and the extraction call leave every table
\* as it was and the invocation holds no law firm, client, case or
\* communication yet; an ingest fails in extraction or in the lookup of a
\* supplied law_firm_id only in these two steps, and the failing step leaves
\* every table as it was.
C29_EarlyFailureWritesNothing ==
    [][/\ (op' = "ingest" /\ pc' \in {"call", "firm"}) =>
              /\ UNCHANGED dbVars
              /\ frame'.law_firm = 0
              /\ frame'.client = 0
              /\ frame'.case = 0
              /\ cur' = 0
       /\ (op = "ingest" /\ ~Stopped /\ FailedEarly') =>
              /\ pc \in {"call", "firm"}
              /\ UNCHANGED dbVars]_vars

\* a second ingest, after one that stored its records, has failed in the
\* lookup of a law_firm_id that names no law firm
C29_Witness ==
    /\ op = "ingest"
    /\ pc = "raised"
    /\ err.cls = "DoesNotExist"
    /\ frame.law_firm_id \notin DOMAIN firms
    /\ frame.client = 0
    /\ Len(comms) = 1
    /\ comms[1].parse_status = "done"
    /\ Len(parties) >= 1


\* the lookups of persist's get_or_create calls for a result find a row each
Upserted(result, case) ==
    /\ \A e \in DOMAIN result.parties : \E i \in DOMAIN parties :
           /\ parties[i].case = case
           /\ parties[i].first_name = result.parties[e].first_name
           /\ parties[i].last_name = result.parties[e].last_name
    /\ \A e \in DOMAIN result.medical : \E p \in DOMAIN providers :
           /\ providers[p].first_name = result.medical[e].first_name
           /\ providers[p].last_name = result.medical[e].last_name
           /\ \E t \in DOMAIN treatments :
                  treatments[t].case = case /\ treatments[t].provider = p
    /\ \A e \in DOMAIN result.damages : \E i \in DOMAIN damages :
           /\ damages[i].case = case
           /\ damages[i].category = result.damages[e].category

\* the rows of a table are kept as they are
Kept(old, new) == \A i \in DOMAIN old : i \in DOMAIN new /\ new[i] = old[i]

\* C30: ingest creates its communication with parse_status processing; a
\* parse_status changes only from processing to done, only for the
\* communication of the running ingest, in the step after its persist has
\* returned, when every other party, provider, treatment and damage of its
\* result has been looked up or created for its case; stored rows of these
\* tables are never changed or removed, and no communication ever has a
\* status other than processing and done.
C30_DoneOnlyAfterPersist ==
    [][/\ \A c \in DOMAIN comms' :
              /\ comms'[c].parse_status \in {"processing", "done"}
              /\ c \notin DOMAIN comms => comms'[c].parse_status = "processing"
              /\ (c \in DOMAIN comms /\ comms'[c].parse_status # comms[c].parse_status) =>
                     /\ comms[c].parse_status = "processing"
                     /\ comms'[c].parse_status = "done"
                     /\ c = cur
                     /\ op = "ingest"
                     /\ pc = "done"
                     /\ err = NoError
                     /\ comms[c].case = frame.case
                     /\ Upserted(res, frame.case)
       /\ (op = "ingest" /\ pc = "persist" /\ pc' = "done") => Upserted(res, frame.case)'
       /\ (op' = "ingest" /\ pc' = "done") => pc = "persist"
       /\ Kept(parties, parties')
       /\ Kept(providers, providers')
       /\ Kept(treatments, treatments')
       /\ Kept(damages, damages')]_vars

\* an ingest whose result has an other party, a provider and a damage has
\* returned: its communication is done and the three are stored for its case
C30_Witness ==
    /\ Ingested
    /\ comms[cur].parse_status = "done"
    /\ Len(res.parties) >= 1
    /\ Len(res.medical) >= 1
    /\ Len(res.damages) >= 1
    /\ Upserted(res, frame.case)
    /\ \E t \in DOMAIN treatments : treatments[t].case = comms[cur].case

====
